---- MODULE Spec2Model ----
(***************************************************************************)
(* Peer message-processing core (src/services/chain/messages.cpp).         *)
(*                                                                         *)
(* The cs_main-protected globals, the per-peer CNodeState records and the  *)
(* CNode fields the handlers read and write are the state.  One step is    *)
(* one call made by the transport: InitializeNode, FinalizeNode,           *)
(* ProcessMessages (one inbound message) or SendMessages (one tick).       *)
(* Handlers are written as operators from a world record W to a world      *)
(* record, in the order of the statements of the source.                   *)
(***************************************************************************)
EXTENDS Integers, Sequences, FiniteSets, TLC

\* ------------------------------------------------------------------ bounds
NumPeers == 2
NumBlocks == 1
ChainLen == 2
NumBogus == 1
MAX_BLOCKS_IN_TRANSIT_PER_PEER == 1
BLOCK_DOWNLOAD_WINDOW == 1
MaxScore == 121
MaxEarly == 1
NumTx == 4
MaxGetData == 2
DEFAULT_MAX_ORPHAN_TRANSACTIONS == 2

\* ------------------------------------------------------- program constants
DEFAULT_BANSCORE_THRESHOLD == 100
MIN_PROTO_VERSION == 60034
NO_BLOOM_VERSION == 60035
SENDHEADERS_VERSION == 60036
PROTOCOL_VERSION == 60037
BLOCK_STALLING_TIMEOUT == 2
BLOCK_DOWNLOAD_TIMEOUT_BASE == 1000000
BLOCK_DOWNLOAD_TIMEOUT_PER_PEER == 500000
nTargetSpacing == 45
MAX_INV_SZ == 50000
MAX_HEADERS_RESULTS == 2000
REJECT_INTERNAL == 256
MAX_ORPHAN_TX_SIZE == 5000
PING_INTERVAL == 120
MAX_BLOCKS_TO_ANNOUNCE == 8
INVENTORY_BROADCAST_MAX == 35
\* std::numeric_limits<int64_t>::max() in the width of the model's integers
INT_MAX == 2147483647

\* ------------------------------------------------------------------ domains
Peers == 1..NumPeers
NoNode == -1

\* A CBlockIndex of the (linear) header tree is named by its height; the
\* genesis block is 0.  NoIndex is the NULL pointer.
NoIndex == -1
AllIndex == 0..ChainLen
pprev(pindex) == IF pindex = 0 THEN NoIndex ELSE pindex - 1
nHeight(pindex) == pindex
nChainWork(pindex) == pindex + 1

\* uint256: 0 is the null hash; a block's hash is its index + 1; the
\* remaining hashes belong to no block any header will ever describe.
NullHash == 0
GetBlockHash(pindex) == pindex + 1
IndexOfHash(hash) == hash - 1
BlockHashes == {GetBlockHash(i) : i \in AllIndex}
BogusHashes == (ChainLen + 2)..(ChainLen + 1 + NumBogus)
Hashes == BlockHashes \cup BogusHashes
\* The hashes peers mention where only the first NumBlocks blocks are in play.
OfferedBlockHashes == {GetBlockHash(i) : i \in 0..NumBlocks}
OfferedHashes == OfferedBlockHashes \cup BogusHashes

Min(a, b) == IF a < b THEN a ELSE b
Max(a, b) == IF a > b THEN a ELSE b
Bit(b) == IF b THEN 1 ELSE 0
Restrict(f, S) == [x \in S |-> f[x]]
SeqToSet(s) == {s[i] : i \in 1..Len(s)}

\* A local variable: e is computed once and the rest of the body, G, reads it.
With(e, G(_)) == G(e)

VARIABLES
    vNodes,                        \* CNode objects of the connection manager
    mapNodeState,                  \* NodeId -> CNodeState
    mapBlocksInFlight,             \* hash -> (NodeId, list iterator)
    mapBlockSource,                \* hash -> (NodeId, punish)
    mapOrphanTransactions,         \* txid -> COrphanTx
    mapOrphanTransactionsByPrev,   \* prev txid -> set of orphan txids
    nPreferredDownload,
    nPeersWithValidatedDownloads,
    nSyncStarted,
    mapBlockIndex,                 \* block index entries (headers) we know
    setHaveData,                   \* entries with BLOCK_HAVE_DATA
    pindexTip,                    \* chainActive.Tip()
    setBanned,                     \* ban database of the connection manager
    mempool,                       \* txids the memory pool holds
    recentRejects,                 \* txids in the rolling reject filter
    hashRecentRejectsChainTip,     \* tip hash the filter was last reset at
    fUpdateConnectionTime,         \* out-parameter of the last FinalizeNode
    inMisbehaving,                 \* NodeId -> the Misbehaving call a worker
                                   \* is inside without cs_main
    nTimeMicros,                   \* GetTimeMicros()
    nHighestFastAnnounce,          \* static of NewPoWValidBlock
    locks,                         \* NodeId -> the code path the worker of
                                   \* that peer is in, its position and the
                                   \* mutexes it holds, oldest first
    sent,                          \* messages pushed during the last step
    fault                          \* "none", or how the process died

vars == <<vNodes, mapNodeState, mapBlocksInFlight, mapBlockSource,
          mapOrphanTransactions, mapOrphanTransactionsByPrev,
          nPreferredDownload, nPeersWithValidatedDownloads, nSyncStarted,
          mapBlockIndex, setHaveData, pindexTip, setBanned,
          mempool, recentRejects, hashRecentRejectsChainTip,
          fUpdateConnectionTime, inMisbehaving, locks,
          nTimeMicros, nHighestFastAnnounce, sent, fault>>

World == [vNodes |-> vNodes, mapNodeState |-> mapNodeState,
          mapBlocksInFlight |-> mapBlocksInFlight,
          mapBlockSource |-> mapBlockSource,
          mapOrphanTransactions |-> mapOrphanTransactions,
          mapOrphanTransactionsByPrev |-> mapOrphanTransactionsByPrev,
          nPreferredDownload |-> nPreferredDownload,
          nPeersWithValidatedDownloads |-> nPeersWithValidatedDownloads,
          nSyncStarted |-> nSyncStarted,
          mapBlockIndex |-> mapBlockIndex, setHaveData |-> setHaveData,
          pindexTip |-> pindexTip, setBanned |-> setBanned,
          mempool |-> mempool, recentRejects |-> recentRejects,
          hashRecentRejectsChainTip |-> hashRecentRejectsChainTip,
          fUpdateConnectionTime |-> FALSE,
          inMisbehaving |-> inMisbehaving,
          locks |-> locks,
          nTimeMicros |-> nTimeMicros,
          nHighestFastAnnounce |-> nHighestFastAnnounce,
          sent |-> <<>>, fault |-> fault]

Commit(W) ==
    /\ vNodes' = W.vNodes
    /\ mapNodeState' = W.mapNodeState
    /\ mapBlocksInFlight' = W.mapBlocksInFlight
    /\ mapBlockSource' = W.mapBlockSource
    /\ mapOrphanTransactions' = W.mapOrphanTransactions
    /\ mapOrphanTransactionsByPrev' = W.mapOrphanTransactionsByPrev
    /\ nPreferredDownload' = W.nPreferredDownload
    /\ nPeersWithValidatedDownloads' = W.nPeersWithValidatedDownloads
    /\ nSyncStarted' = W.nSyncStarted
    /\ mapBlockIndex' = W.mapBlockIndex
    /\ setHaveData' = W.setHaveData
    /\ pindexTip' = W.pindexTip
    /\ setBanned' = W.setBanned
    /\ mempool' = W.mempool
    /\ recentRejects' = W.recentRejects
    /\ hashRecentRejectsChainTip' = W.hashRecentRejectsChainTip
    /\ fUpdateConnectionTime' = W.fUpdateConnectionTime
    /\ inMisbehaving' = W.inMisbehaving
    /\ locks' = W.locks
    /\ nTimeMicros' = W.nTimeMicros
    /\ nHighestFastAnnounce' = W.nHighestFastAnnounce
    /\ sent' = W.sent
    /\ fault' = W.fault

\* ---------------------------------------------------------- construction
\* CNodeState(addr, addrName): the record InitializeNode emplaces.
NewNodeState ==
    [fCurrentlyConnected |-> FALSE, nMisbehavior |-> 0, fShouldBan |-> FALSE,
     rejects |-> <<>>,
     pindexBestKnownBlock |-> NoIndex, hashLastUnknownBlock |-> NullHash,
     pindexLastCommonBlock |-> NoIndex, pindexBestHeaderSent |-> NoIndex,
     fSyncStarted |-> FALSE, nStallingSince |-> 0, vBlocksInFlight |-> <<>>,
     nDownloadingSince |-> 0, nBlocksInFlight |-> 0,
     nBlocksInFlightValidHeaders |-> 0, fPreferredDownload |-> FALSE,
     fPreferHeaders |-> FALSE]

\* The CNode the connection manager hands to InitializeNode; cfg holds the
\* flags fixed at connection time.
NewNode(cfg) ==
    [fInbound |-> cfg.fInbound, fWhitelisted |-> cfg.fWhitelisted,
     fAddnode |-> cfg.fAddnode, fLocalAddr |-> cfg.fLocalAddr,
     fOneShot |-> cfg.fOneShot, fFeeler |-> cfg.fFeeler,
     nVersion |-> 0, nSendVersion |-> 0, nRecvVersion |-> 0,
     fClient |-> FALSE, fGetAddr |-> FALSE, setAskFor |-> {},
     vRecvGetData |-> <<>>,
     fPingQueued |-> FALSE, nPingNonceSent |-> 0, nPingUsecStart |-> 0,
     nPingUsecTime |-> 0, nMinPingUsecTime |-> INT_MAX,
     fRelayTxes |-> FALSE, setInventoryTxToSend |-> {},
     filterInventoryKnown |-> {}, nNextInvSend |-> 0, addrKnown |-> {},
     vBlockHashesToAnnounce |-> <<>>, vInventoryBlockToSend |-> <<>>,
     nStartingHeight |-> -1,
     fSuccessfullyConnected |-> FALSE, fDisconnect |-> FALSE]

Message(cmd, arg) == [cmd |-> cmd, arg |-> arg]

\* connman.PushMessage(pnode, msg)
PushMessage(W, pnode, cmd, arg) ==
    [W EXCEPT !.sent = Append(@, [to |-> pnode, cmd |-> cmd, arg |-> arg])]

Die(W, how) == [W EXCEPT !.fault = how]

\* State(pnode): NoNode stands for the nullptr result.
HasState(W, pnode) == pnode \in DOMAIN W.mapNodeState

PushNodeVersion(W, pnode) == PushMessage(W, pnode, "version", PROTOCOL_VERSION)

InitializeNodeOp(W, nodeid, cfg) ==
    LET W1 == [W EXCEPT !.vNodes = (nodeid :> NewNode(cfg)) @@ @,
                        !.mapNodeState = (nodeid :> NewNodeState) @@ @]
    IN IF ~cfg.fInbound THEN PushNodeVersion(W1, nodeid) ELSE W1

\* -------------------------------------------------------------- orphans
\* AddOrphanTx(tx, peer): refused for a hash already in the pool and for a
\* transaction of more than MAX_ORPHAN_TX_SIZE bytes.
AddOrphanTx(W, tx, peer) ==
    IF tx.hash \in DOMAIN W.mapOrphanTransactions THEN W
    ELSE IF tx.nSize > MAX_ORPHAN_TX_SIZE THEN W
    ELSE [W EXCEPT
            !.mapOrphanTransactions =
                (tx.hash :> [tx |-> tx, fromPeer |-> peer]) @@ @,
            !.mapOrphanTransactionsByPrev =
                [prev \in DOMAIN @ \cup tx.vin |->
                    IF prev \in tx.vin
                    THEN (IF prev \in DOMAIN @ THEN @[prev] ELSE {}) \cup {tx.hash}
                    ELSE @[prev]]]

\* EraseOrphanTx that leaves an emptied index set in the reverse index.
EraseOrphanTxLeavesEmpty(W, hash) ==
    IF hash \notin DOMAIN W.mapOrphanTransactions THEN W
    ELSE LET vin == W.mapOrphanTransactions[hash].tx.vin
         IN [W EXCEPT
               !.mapOrphanTransactionsByPrev =
                   [prev \in DOMAIN @ |->
                       IF prev \in vin THEN @[prev] \ {hash} ELSE @[prev]],
               !.mapOrphanTransactions =
                   Restrict(@, DOMAIN @ \ {hash})]

EraseOrphanTx(W, hash) ==
    IF hash \notin DOMAIN W.mapOrphanTransactions THEN W
    ELSE LET vin == W.mapOrphanTransactions[hash].tx.vin
             byPrev == W.mapOrphanTransactionsByPrev
             kept == {prev \in DOMAIN byPrev :
                         ~(prev \in vin /\ byPrev[prev] \subseteq {hash})}
         IN [W EXCEPT
               !.mapOrphanTransactionsByPrev =
                   [prev \in kept |->
                       IF prev \in vin THEN byPrev[prev] \ {hash}
                       ELSE byPrev[prev]],
               !.mapOrphanTransactions =
                   Restrict(@, DOMAIN @ \ {hash})]

RECURSIVE EraseOrphansLoop(_, _, _)
EraseOrphansLoop(W, todo, peer) ==
    IF todo = {} THEN W
    ELSE LET h == CHOOSE x \in todo : \A y \in todo : x <= y
             W1 == IF h \in DOMAIN W.mapOrphanTransactions
                       /\ W.mapOrphanTransactions[h].fromPeer = peer
                   THEN EraseOrphanTx(W, h) ELSE W
         IN EraseOrphansLoop(W1, todo \ {h}, peer)

EraseOrphansFor(W, peer) ==
    EraseOrphansLoop(W, DOMAIN W.mapOrphanTransactions, peer)

\* mapOrphanTransactions.lower_bound(randomhash), begin() when past the end.
LowerBoundOrBegin(keys, randomhash) ==
    IF \E k \in keys : k >= randomhash
    THEN CHOOSE k \in keys : k >= randomhash
                               /\ \A j \in keys : j >= randomhash => k <= j
    ELSE CHOOSE k \in keys : \A j \in keys : k <= j

\* LimitOrphanTxSize(nMaxOrphans): vRandHash[i] is what the i-th call of
\* GetRandHash returns.  The result carries the world and nEvicted.
RECURSIVE LimitOrphanTxSizeLoop(_, _, _, _)
LimitOrphanTxSizeLoop(W, nMaxOrphans, vRandHash, nEvicted) ==
    IF Cardinality(DOMAIN W.mapOrphanTransactions) > nMaxOrphans
    THEN LimitOrphanTxSizeLoop(
             EraseOrphanTx(W, LowerBoundOrBegin(
                 DOMAIN W.mapOrphanTransactions,
                 vRandHash[(nEvicted % Len(vRandHash)) + 1])),
             nMaxOrphans, vRandHash, nEvicted + 1)
    ELSE [W |-> W, nEvicted |-> nEvicted]

\* LimitOrphanTxSize that stops one entry above the cap.
LimitOrphanTxSizeLax(W, nMaxOrphans, vRandHash) ==
    LimitOrphanTxSizeLoop(W, nMaxOrphans + 1, vRandHash, 0)

LimitOrphanTxSize(W, nMaxOrphans, vRandHash) ==
    LimitOrphanTxSizeLoop(W, nMaxOrphans, vRandHash, 0)

\* ------------------------------------------------------------- DoS score
banscore == DEFAULT_BANSCORE_THRESHOLD

\* Misbehaving that asks for the score to pass banscore, not to reach it.
MisbehavingStrict(W, pnode, howmuch) ==
    IF howmuch = 0 \/ ~HasState(W, pnode) THEN W
    ELSE LET after == W.mapNodeState[pnode].nMisbehavior + howmuch
         IN IF after > banscore /\ after - howmuch < banscore
            THEN [W EXCEPT !.mapNodeState[pnode].nMisbehavior = after,
                           !.mapNodeState[pnode].fShouldBan = TRUE]
            ELSE [W EXCEPT !.mapNodeState[pnode].nMisbehavior = after]

Misbehaving(W, pnode, howmuch) ==
    IF howmuch = 0 THEN W
    ELSE IF ~HasState(W, pnode) THEN W
    ELSE LET after == W.mapNodeState[pnode].nMisbehavior + howmuch
         IN IF after >= banscore /\ after - howmuch < banscore
            THEN [W EXCEPT !.mapNodeState[pnode].nMisbehavior = after,
                           !.mapNodeState[pnode].fShouldBan = TRUE]
            ELSE [W EXCEPT !.mapNodeState[pnode].nMisbehavior = after]

\* The second half of state->nMisbehavior += howmuch and what follows it,
\* for a caller that read the score nSeen earlier.
MisbehavingStore(W, pnode, howmuch, nSeen) ==
    LET after == nSeen + howmuch
    IN IF after >= banscore /\ after - howmuch < banscore
       THEN [W EXCEPT !.mapNodeState[pnode].nMisbehavior = after,
                      !.mapNodeState[pnode].fShouldBan = TRUE]
       ELSE [W EXCEPT !.mapNodeState[pnode].nMisbehavior = after]

\* SendRejectsAndCheckIfBanned that spares nobody.
SendRejectsAndBanAll(W, pnode) ==
    LET state == W.mapNodeState[pnode]
    IN IF state.fShouldBan
       THEN [W EXCEPT !.mapNodeState[pnode].rejects = <<>>,
                      !.mapNodeState[pnode].fShouldBan = FALSE,
                      !.vNodes[pnode].fDisconnect = TRUE,
                      !.setBanned = @ \cup {pnode}]
       ELSE [W EXCEPT !.mapNodeState[pnode].rejects = <<>>]

SendRejectsAndCheckIfBanned(W, pnode) ==
    LET state == W.mapNodeState[pnode]
        RECURSIVE Flush(_, _)
        Flush(V, i) ==
            IF i > Len(state.rejects) THEN V
            ELSE Flush(PushMessage(V, pnode, "reject", state.rejects[i]), i + 1)
    IN With([Flush(W, 1) EXCEPT !.mapNodeState[pnode].rejects = <<>>],
            LAMBDA W1 :
       IF state.fShouldBan
       THEN With([W1 EXCEPT !.mapNodeState[pnode].fShouldBan = FALSE],
                 LAMBDA W2 :
            IF W.vNodes[pnode].fWhitelisted THEN W2
            ELSE IF W.vNodes[pnode].fAddnode THEN W2
            ELSE With([W2 EXCEPT !.vNodes[pnode].fDisconnect = TRUE],
                      LAMBDA W3 :
                 IF W.vNodes[pnode].fLocalAddr THEN W3
                 ELSE [W3 EXCEPT !.setBanned = @ \cup {pnode}]))
       ELSE W1)

SendRejectsBanned(W, pnode) == W.mapNodeState[pnode].fShouldBan

\* ------------------------------------------------------ in-flight table
\* A std::list node is a fresh object; it is named by the hash it holds and a
\* serial number that tells it from the live nodes holding the same hash.  An
\* iterator is the name of the node it points to.
UsedListNodes(W) ==
    UNION {{W.mapNodeState[n].vBlocksInFlight[i].node :
               i \in 1..Len(W.mapNodeState[n].vBlocksInFlight)} :
           n \in DOMAIN W.mapNodeState}

NewListNode(W, hash) ==
    LET k == CHOOSE k \in 1..(Cardinality(UsedListNodes(W)) + 1) :
                 /\ <<hash, k>> \notin UsedListNodes(W)
                 /\ \A j \in 1..(k - 1) : <<hash, j>> \in UsedListNodes(W)
    IN <<hash, k>>

\* MarkBlockAsReceived that leaves nPeersWithValidatedDownloads alone.
MarkBlockAsReceivedKeepsCount(W, hash, nNow) ==
    IF hash \in DOMAIN W.mapBlocksInFlight
    THEN LET itInFlight == W.mapBlocksInFlight[hash]
             nodeid == itInFlight.nodeid
             state == W.mapNodeState[nodeid]
             list == state.vBlocksInFlight
             entry == CHOOSE e \in SeqToSet(list) : e.node = itInFlight.it
         IN [W EXCEPT
               !.mapNodeState[nodeid].nBlocksInFlightValidHeaders =
                   @ - Bit(entry.fValidatedHeaders),
               !.mapNodeState[nodeid].nDownloadingSince =
                   IF list[1] = entry THEN Max(@, nNow) ELSE @,
               !.mapNodeState[nodeid].vBlocksInFlight =
                   SelectSeq(list, LAMBDA e : e.node # itInFlight.it),
               !.mapNodeState[nodeid].nBlocksInFlight = @ - 1,
               !.mapNodeState[nodeid].nStallingSince = 0,
               !.mapBlocksInFlight = Restrict(@, DOMAIN @ \ {hash})]
    ELSE W

MarkBlockAsReceived(W, hash, nNow) ==
    IF hash \in DOMAIN W.mapBlocksInFlight
    THEN LET itInFlight == W.mapBlocksInFlight[hash]
             nodeid == itInFlight.nodeid
         IN IF ~HasState(W, nodeid) THEN Die(W, "ub")
            ELSE
            LET state == W.mapNodeState[nodeid]
                list == state.vBlocksInFlight
                at == {i \in 1..Len(list) : list[i].node = itInFlight.it}
            IN IF at = {} THEN Die(W, "ub")
               ELSE
               LET i == CHOOSE k \in at : TRUE
                   entry == list[i]
                   nValid == state.nBlocksInFlightValidHeaders
                                 - Bit(entry.fValidatedHeaders)
               IN [W EXCEPT
                     !.mapNodeState[nodeid].nBlocksInFlightValidHeaders = nValid,
                     !.nPeersWithValidatedDownloads =
                         IF nValid = 0 /\ entry.fValidatedHeaders
                         THEN @ - 1 ELSE @,
                     !.mapNodeState[nodeid].nDownloadingSince =
                         IF i = 1 THEN Max(@, nNow) ELSE @,
                     !.mapNodeState[nodeid].vBlocksInFlight =
                         SelectSeq(list, LAMBDA e : e.node # itInFlight.it),
                     !.mapNodeState[nodeid].nBlocksInFlight = @ - 1,
                     !.mapNodeState[nodeid].nStallingSince = 0,
                     !.mapBlocksInFlight = Restrict(@, DOMAIN @ \ {hash})]
    ELSE W

MarkBlockAsReceivedResult(W, hash) == hash \in DOMAIN W.mapBlocksInFlight

\* MarkBlockAsInFlight that does not count the block for the peer.
MarkBlockAsInFlightUncounted(W, nodeid, hash, pindex, nNow) ==
    With(MarkBlockAsReceived(W, hash, nNow), LAMBDA W1 :
    With(NewListNode(W1, hash), LAMBDA it :
    LET newentry == [hash |-> hash, pindex |-> pindex,
                     fValidatedHeaders |-> pindex # NoIndex, node |-> it]
        state == W1.mapNodeState[nodeid]
        nValid == state.nBlocksInFlightValidHeaders
                      + Bit(newentry.fValidatedHeaders)
    IN [W1 EXCEPT
          !.mapNodeState[nodeid].vBlocksInFlight = Append(@, newentry),
          !.mapNodeState[nodeid].nBlocksInFlightValidHeaders = nValid,
          !.mapNodeState[nodeid].nDownloadingSince =
              IF state.nBlocksInFlight = 0 THEN nNow ELSE @,
          !.nPeersWithValidatedDownloads =
              IF nValid = 1 /\ pindex # NoIndex THEN @ + 1 ELSE @,
          !.mapBlocksInFlight =
              (hash :> [nodeid |-> nodeid, it |-> it]) @@ @]))

MarkBlockAsInFlight(W, nodeid, hash, pindex, nNow) ==
    IF ~HasState(W, nodeid) THEN Die(W, "assert")
    ELSE
    With(MarkBlockAsReceived(W, hash, nNow), LAMBDA W1 :
    With(NewListNode(W1, hash), LAMBDA it :
    LET newentry == [hash |-> hash, pindex |-> pindex,
                     fValidatedHeaders |-> pindex # NoIndex, node |-> it]
        state == W1.mapNodeState[nodeid]
        nInFlight == state.nBlocksInFlight + 1
        nValid == state.nBlocksInFlightValidHeaders
                      + Bit(newentry.fValidatedHeaders)
    IN [W1 EXCEPT
          !.mapNodeState[nodeid].vBlocksInFlight = Append(@, newentry),
          !.mapNodeState[nodeid].nBlocksInFlight = nInFlight,
          !.mapNodeState[nodeid].nBlocksInFlightValidHeaders = nValid,
          !.mapNodeState[nodeid].nDownloadingSince =
              IF nInFlight = 1 THEN nNow ELSE @,
          !.nPeersWithValidatedDownloads =
              IF nValid = 1 /\ pindex # NoIndex THEN @ + 1 ELSE @,
          !.mapBlocksInFlight =
              (hash :> [nodeid |-> nodeid, it |-> it]) @@ @]))

\* UpdatePreferredDownload that sets the flag and leaves the count alone.
UpdatePreferredDownloadFlagOnly(W, node) ==
    LET n == W.vNodes[node]
    IN [W EXCEPT !.mapNodeState[node].fPreferredDownload =
                     (~n.fInbound \/ n.fWhitelisted) /\ ~n.fOneShot /\ ~n.fClient]

UpdatePreferredDownload(W, node) ==
    LET n == W.vNodes[node]
        fPref == (~n.fInbound \/ n.fWhitelisted) /\ ~n.fOneShot /\ ~n.fClient
    IN [W EXCEPT
          !.nPreferredDownload =
              @ - Bit(W.mapNodeState[node].fPreferredDownload) + Bit(fPref),
          !.mapNodeState[node].fPreferredDownload = fPref]

\* --------------------------------------------------------- FinalizeNode
RECURSIVE EraseInFlightOf(_, _, _)
EraseInFlightOf(map, list, i) ==
    IF i > Len(list) THEN map
    ELSE EraseInFlightOf(Restrict(map, DOMAIN map \ {list[i].hash}), list, i + 1)

\* FinalizeNode that leaves the peer's blocks in mapBlocksInFlight and checks
\* nothing.
FinalizeNodeKeepsInFlight(W, nodeid) ==
    LET state == W.mapNodeState[nodeid]
    IN [W EXCEPT
          !.nSyncStarted = IF state.fSyncStarted THEN @ - 1 ELSE @,
          !.nPreferredDownload = @ - Bit(state.fPreferredDownload),
          !.nPeersWithValidatedDownloads =
              @ - Bit(state.nBlocksInFlightValidHeaders # 0),
          !.mapNodeState = Restrict(@, DOMAIN @ \ {nodeid}),
          !.vNodes = Restrict(@, DOMAIN @ \ {nodeid})]

\* FinalizeNode that forgets to take the peer out of
\* nPeersWithValidatedDownloads.
FinalizeNodeKeepsValidated(W, nodeid) ==
    LET state == W.mapNodeState[nodeid]
    IN With([W EXCEPT
               !.fUpdateConnectionTime =
                   state.nMisbehavior = 0 /\ state.fCurrentlyConnected,
               !.nSyncStarted = IF state.fSyncStarted THEN @ - 1 ELSE @,
               !.mapBlocksInFlight =
                   EraseInFlightOf(@, state.vBlocksInFlight, 1),
               !.mapBlockSource =
                   Restrict(@, {h \in DOMAIN @ : @[h].nodeid # nodeid})],
            LAMBDA W1 :
       With(EraseOrphansFor(W1, nodeid), LAMBDA W2 :
       With([W2 EXCEPT
               !.nPreferredDownload = @ - Bit(state.fPreferredDownload),
               !.mapNodeState = Restrict(@, DOMAIN @ \ {nodeid}),
               !.vNodes = Restrict(@, DOMAIN @ \ {nodeid})],
            LAMBDA W4 :
       IF DOMAIN W4.mapNodeState = {}
          /\ ~(/\ DOMAIN W4.mapBlocksInFlight = {}
               /\ W4.nPreferredDownload = 0
               /\ W4.nPeersWithValidatedDownloads = 0)
       THEN Die(W4, "assert")
       ELSE W4)))

\* FinalizeNode that leaves the peer's orphan transactions in the pool.
FinalizeNodeKeepsOrphans(W, nodeid) ==
    LET state == W.mapNodeState[nodeid]
    IN [W EXCEPT
          !.fUpdateConnectionTime =
              state.nMisbehavior = 0 /\ state.fCurrentlyConnected,
          !.nSyncStarted = IF state.fSyncStarted THEN @ - 1 ELSE @,
          !.mapBlocksInFlight = EraseInFlightOf(@, state.vBlocksInFlight, 1),
          !.mapBlockSource =
              Restrict(@, {h \in DOMAIN @ : @[h].nodeid # nodeid}),
          !.nPreferredDownload = @ - Bit(state.fPreferredDownload),
          !.nPeersWithValidatedDownloads =
              @ - Bit(state.nBlocksInFlightValidHeaders # 0),
          !.mapNodeState = Restrict(@, DOMAIN @ \ {nodeid}),
          !.vNodes = Restrict(@, DOMAIN @ \ {nodeid})]

\* FinalizeNode that reports a clean connection whatever the peer's score.
FinalizeNodeIgnoresScore(W, nodeid) ==
    LET state == W.mapNodeState[nodeid]
    IN With([W EXCEPT
               !.fUpdateConnectionTime = state.fCurrentlyConnected,
               !.nSyncStarted = IF state.fSyncStarted THEN @ - 1 ELSE @,
               !.mapBlocksInFlight =
                   EraseInFlightOf(@, state.vBlocksInFlight, 1),
               !.mapBlockSource =
                   Restrict(@, {h \in DOMAIN @ : @[h].nodeid # nodeid})],
            LAMBDA W1 :
       With(EraseOrphansFor(W1, nodeid), LAMBDA W2 :
       [W2 EXCEPT
          !.nPreferredDownload = @ - Bit(state.fPreferredDownload),
          !.nPeersWithValidatedDownloads =
              @ - Bit(state.nBlocksInFlightValidHeaders # 0),
          !.mapNodeState = Restrict(@, DOMAIN @ \ {nodeid}),
          !.vNodes = Restrict(@, DOMAIN @ \ {nodeid})]))

\* FinalizeNode that leaves nSyncStarted alone.
FinalizeNodeKeepsSync(W, nodeid) ==
    LET state == W.mapNodeState[nodeid]
    IN With([W EXCEPT
               !.fUpdateConnectionTime =
                   state.nMisbehavior = 0 /\ state.fCurrentlyConnected,
               !.mapBlocksInFlight =
                   EraseInFlightOf(@, state.vBlocksInFlight, 1),
               !.mapBlockSource =
                   Restrict(@, {h \in DOMAIN @ : @[h].nodeid # nodeid})],
            LAMBDA W1 :
       With(EraseOrphansFor(W1, nodeid), LAMBDA W2 :
       With([W2 EXCEPT
               !.nPreferredDownload = @ - Bit(state.fPreferredDownload),
               !.nPeersWithValidatedDownloads =
                   @ - Bit(state.nBlocksInFlightValidHeaders # 0)],
            LAMBDA W3 :
       IF W3.nPeersWithValidatedDownloads < 0 THEN Die(W3, "assert")
       ELSE
       With([W3 EXCEPT !.mapNodeState = Restrict(@, DOMAIN @ \ {nodeid}),
                       !.vNodes = Restrict(@, DOMAIN @ \ {nodeid})],
            LAMBDA W4 :
       IF DOMAIN W4.mapNodeState = {}
          /\ ~(/\ DOMAIN W4.mapBlocksInFlight = {}
               /\ W4.nPreferredDownload = 0
               /\ W4.nPeersWithValidatedDownloads = 0)
       THEN Die(W4, "assert")
       ELSE W4))))

FinalizeNodeOp(W, nodeid) ==
    LET state == W.mapNodeState[nodeid]
    IN With([W EXCEPT
               !.fUpdateConnectionTime =
                   state.nMisbehavior = 0 /\ state.fCurrentlyConnected,
               !.nSyncStarted = IF state.fSyncStarted THEN @ - 1 ELSE @,
               !.mapBlocksInFlight =
                   EraseInFlightOf(@, state.vBlocksInFlight, 1),
               !.mapBlockSource =
                   Restrict(@, {h \in DOMAIN @ : @[h].nodeid # nodeid})],
            LAMBDA W1 :
       With(EraseOrphansFor(W1, nodeid), LAMBDA W2 :
       With([W2 EXCEPT
               !.nPreferredDownload = @ - Bit(state.fPreferredDownload),
               !.nPeersWithValidatedDownloads =
                   @ - Bit(state.nBlocksInFlightValidHeaders # 0)],
            LAMBDA W3 :
       IF W3.nPeersWithValidatedDownloads < 0 THEN Die(W3, "assert")
       ELSE
       With([W3 EXCEPT !.mapNodeState = Restrict(@, DOMAIN @ \ {nodeid}),
                       !.vNodes = Restrict(@, DOMAIN @ \ {nodeid})],
            LAMBDA W4 :
       IF DOMAIN W4.mapNodeState = {}
          /\ ~(/\ DOMAIN W4.mapBlocksInFlight = {}
               /\ W4.nPreferredDownload = 0
               /\ W4.nPeersWithValidatedDownloads = 0)
       THEN Die(W4, "assert")
       ELSE W4))))

\* ------------------------------------------------------------ block index
RECURSIVE GetAncestor(_, _)
GetAncestor(pindex, height) ==
    IF pindex = NoIndex \/ height > nHeight(pindex) \/ height < 0 THEN NoIndex
    ELSE IF nHeight(pindex) = height THEN pindex
    ELSE GetAncestor(pprev(pindex), height)

\* chainActive.Contains, chainActive[height], BLOCK_HAVE_DATA, nChainTx != 0
ChainContains(W, pindex) ==
    pindex # NoIndex /\ GetAncestor(W.pindexTip, nHeight(pindex)) = pindex
ChainAt(W, height) == GetAncestor(W.pindexTip, height)
HaveData(W, pindex) == pindex \in W.setHaveData
HasChainTx(W, pindex) ==
    \A h \in 0..nHeight(pindex) : GetAncestor(pindex, h) \in W.setHaveData
IsValidTree(W, pindex) == pindex \in W.mapBlockIndex
HaveIndex(W, hash) == hash \in BlockHashes /\ IndexOfHash(hash) \in W.mapBlockIndex
pindexBestHeader(W) ==
    CHOOSE i \in W.mapBlockIndex :
        \A j \in W.mapBlockIndex : nChainWork(j) <= nChainWork(i)

RECURSIVE LastCommonAncestorWalk(_, _)
LastCommonAncestorWalk(pa, pb) ==
    IF pa # pb /\ pa # NoIndex /\ pb # NoIndex
    THEN LastCommonAncestorWalk(pprev(pa), pprev(pb))
    ELSE pa

LastCommonAncestor(pa, pb) ==
    LET a == IF nHeight(pa) > nHeight(pb) THEN GetAncestor(pa, nHeight(pb)) ELSE pa
        b == IF nHeight(pb) > nHeight(pa) THEN GetAncestor(pb, nHeight(pa)) ELSE pb
    IN LastCommonAncestorWalk(a, b)

ProcessBlockAvailability(W, nodeid) ==
    LET state == W.mapNodeState[nodeid]
    IN IF state.hashLastUnknownBlock # NullHash
          /\ HaveIndex(W, state.hashLastUnknownBlock)
          /\ nChainWork(IndexOfHash(state.hashLastUnknownBlock)) > 0
       THEN LET itOld == IndexOfHash(state.hashLastUnknownBlock)
            IN [W EXCEPT
                  !.mapNodeState[nodeid].pindexBestKnownBlock =
                      IF @ = NoIndex \/ nChainWork(itOld) >= nChainWork(@)
                      THEN itOld ELSE @,
                  !.mapNodeState[nodeid].hashLastUnknownBlock = NullHash]
       ELSE W

UpdateBlockAvailability(W, nodeid, hash) ==
    With(ProcessBlockAvailability(W, nodeid), LAMBDA W1 :
    IF HaveIndex(W1, hash) /\ nChainWork(IndexOfHash(hash)) > 0
    THEN [W1 EXCEPT !.mapNodeState[nodeid].pindexBestKnownBlock =
             IF @ = NoIndex \/ nChainWork(IndexOfHash(hash)) >= nChainWork(@)
             THEN IndexOfHash(hash) ELSE @]
    ELSE [W1 EXCEPT !.mapNodeState[nodeid].hashLastUnknownBlock = hash])

\* ------------------------------------------------ FindNextBlocksToDownload
FETCH_BATCH == 128

\* The inner loop with a window that is one block longer.
RECURSIVE FindNextInnerPastWindow(_, _, _, _, _, _, _)
FindNextInnerPastWindow(W, nodeid, count, nWindowEnd, vToFetch, i, r) ==
    IF r.returned \/ i > Len(vToFetch) THEN r
    ELSE
    LET pindex == vToFetch[i]
        next(rr) == FindNextInnerPastWindow(W, nodeid, count, nWindowEnd, vToFetch, i + 1, rr)
    IN IF ~IsValidTree(W, pindex) THEN [r EXCEPT !.returned = TRUE]
       ELSE IF HaveData(W, pindex) \/ ChainContains(W, pindex)
       THEN IF HasChainTx(W, pindex)
            THEN next([r EXCEPT !.pindexLastCommonBlock = pindex])
            ELSE next(r)
       ELSE IF GetBlockHash(pindex) \notin DOMAIN W.mapBlocksInFlight
       THEN IF nHeight(pindex) > nWindowEnd + 1
            THEN [r EXCEPT !.returned = TRUE,
                           !.nodeStaller =
                               IF Len(r.vBlocks) = 0 /\ r.waitingfor # nodeid
                               THEN r.waitingfor ELSE @]
            ELSE LET r1 == [r EXCEPT !.vBlocks = Append(@, pindex)]
                 IN IF Len(r1.vBlocks) = count
                    THEN [r1 EXCEPT !.returned = TRUE]
                    ELSE next(r1)
       ELSE IF r.waitingfor = NoNode
       THEN next([r EXCEPT !.waitingfor =
                      W.mapBlocksInFlight[GetBlockHash(pindex)].nodeid])
       ELSE next(r)

\* The inner loop that names the asking peer as the staller too.
RECURSIVE FindNextInnerBlamesSelf(_, _, _, _, _, _, _)
FindNextInnerBlamesSelf(W, nodeid, count, nWindowEnd, vToFetch, i, r) ==
    IF r.returned \/ i > Len(vToFetch) THEN r
    ELSE
    LET pindex == vToFetch[i]
        next(rr) == FindNextInnerBlamesSelf(W, nodeid, count, nWindowEnd, vToFetch, i + 1, rr)
    IN IF ~IsValidTree(W, pindex) THEN [r EXCEPT !.returned = TRUE]
       ELSE IF HaveData(W, pindex) \/ ChainContains(W, pindex)
       THEN IF HasChainTx(W, pindex)
            THEN next([r EXCEPT !.pindexLastCommonBlock = pindex])
            ELSE next(r)
       ELSE IF GetBlockHash(pindex) \notin DOMAIN W.mapBlocksInFlight
       THEN IF nHeight(pindex) > nWindowEnd
            THEN [r EXCEPT !.returned = TRUE,
                           !.nodeStaller =
                               IF Len(r.vBlocks) = 0
                               THEN r.waitingfor ELSE @]
            ELSE LET r1 == [r EXCEPT !.vBlocks = Append(@, pindex)]
                 IN IF Len(r1.vBlocks) = count
                    THEN [r1 EXCEPT !.returned = TRUE]
                    ELSE next(r1)
       ELSE IF r.waitingfor = NoNode
       THEN next([r EXCEPT !.waitingfor =
                      W.mapBlocksInFlight[GetBlockHash(pindex)].nodeid])
       ELSE next(r)

\* The inner for-loop over vToFetch.  r carries pindexLastCommonBlock,
\* vBlocks, waitingfor, nodeStaller and whether the function has returned.
RECURSIVE FindNextInner(_, _, _, _, _, _, _)
FindNextInner(W, nodeid, count, nWindowEnd, vToFetch, i, r) ==
    IF r.returned \/ i > Len(vToFetch) THEN r
    ELSE
    LET pindex == vToFetch[i]
        next(rr) == FindNextInner(W, nodeid, count, nWindowEnd, vToFetch, i + 1, rr)
    IN IF ~IsValidTree(W, pindex) THEN [r EXCEPT !.returned = TRUE]
       ELSE IF HaveData(W, pindex) \/ ChainContains(W, pindex)
       THEN IF HasChainTx(W, pindex)
            THEN next([r EXCEPT !.pindexLastCommonBlock = pindex])
            ELSE next(r)
       ELSE IF GetBlockHash(pindex) \notin DOMAIN W.mapBlocksInFlight
       THEN IF nHeight(pindex) > nWindowEnd
            THEN [r EXCEPT !.returned = TRUE,
                           !.nodeStaller =
                               IF Len(r.vBlocks) = 0 /\ r.waitingfor # nodeid
                               THEN r.waitingfor ELSE @]
            ELSE LET r1 == [r EXCEPT !.vBlocks = Append(@, pindex)]
                 IN IF Len(r1.vBlocks) = count
                    THEN [r1 EXCEPT !.returned = TRUE]
                    ELSE next(r1)
       ELSE IF r.waitingfor = NoNode
       THEN next([r EXCEPT !.waitingfor =
                      W.mapBlocksInFlight[GetBlockHash(pindex)].nodeid])
       ELSE next(r)

\* The outer while-loop: one batch of successors of pindexWalk per round.
RECURSIVE FindNextOuter(_, _, _, _, _, _, _)
FindNextOuter(W, nodeid, count, nWindowEnd, nMaxHeight, pindexWalk, r) ==
    IF r.returned \/ ~(nHeight(pindexWalk) < nMaxHeight) THEN r
    ELSE
    LET best == W.mapNodeState[nodeid].pindexBestKnownBlock
        nToFetch == Min(nMaxHeight - nHeight(pindexWalk),
                        Max(count - Len(r.vBlocks), FETCH_BATCH))
        walk == GetAncestor(best, nHeight(pindexWalk) + nToFetch)
        vToFetch == [k \in 1..nToFetch |->
                        GetAncestor(best, nHeight(pindexWalk) + k)]
    IN FindNextOuter(W, nodeid, count, nWindowEnd, nMaxHeight, walk,
           FindNextInner(W, nodeid, count, nWindowEnd, vToFetch, 1, r))

\* Returns the world (pindexBestKnownBlock and pindexLastCommonBlock of the
\* peer updated), the blocks appended to vBlocks and nodeStaller.
FindNextBlocksToDownload(W, nodeid, count, nodeStaller) ==
    LET none(V) == [W |-> V, vBlocks |-> <<>>, nodeStaller |-> nodeStaller]
    IN IF count = 0 THEN none(W)
       ELSE
       With(ProcessBlockAvailability(W, nodeid), LAMBDA W1 :
       With(W1.mapNodeState[nodeid].pindexBestKnownBlock, LAMBDA best :
       IF best = NoIndex \/ nChainWork(best) < nChainWork(W1.pindexTip)
       THEN none(W1)
       ELSE
       With(IF W1.mapNodeState[nodeid].pindexLastCommonBlock = NoIndex
            THEN ChainAt(W1, Min(nHeight(best), nHeight(W1.pindexTip)))
            ELSE W1.mapNodeState[nodeid].pindexLastCommonBlock,
            LAMBDA guess :
       With(LastCommonAncestor(guess, best), LAMBDA common :
       With([W1 EXCEPT !.mapNodeState[nodeid].pindexLastCommonBlock = common],
            LAMBDA W2 :
       IF common = best THEN none(W2)
       ELSE
       LET nWindowEnd == nHeight(common) + BLOCK_DOWNLOAD_WINDOW
           nMaxHeight == Min(nHeight(best), nWindowEnd + 1)
           r0 == [pindexLastCommonBlock |-> common, vBlocks |-> <<>>,
                  waitingfor |-> NoNode, nodeStaller |-> nodeStaller,
                  returned |-> FALSE]
       IN With(FindNextOuter(W2, nodeid, count, nWindowEnd, nMaxHeight,
                             common, r0),
               LAMBDA r :
          [W |-> [W2 EXCEPT !.mapNodeState[nodeid].pindexLastCommonBlock =
                                r.pindexLastCommonBlock],
           vBlocks |-> r.vBlocks, nodeStaller |-> r.nodeStaller]))))))

\* ------------------------------------------------------- chain validator
\* BlockChecked(block, state): the validation callback.
BlockChecked(W, hash, fInvalid, nDoS, chRejectCode) ==
    LET fHave == hash \in DOMAIN W.mapBlockSource
    IN With(IF fInvalid /\ fHave
               /\ HasState(W, W.mapBlockSource[hash].nodeid)
               /\ chRejectCode > 0 /\ chRejectCode < REJECT_INTERNAL
            THEN LET src == W.mapBlockSource[hash]
                 IN With([W EXCEPT !.mapNodeState[src.nodeid].rejects =
                             Append(@, [chRejectCode |-> chRejectCode,
                                        hashBlock |-> hash])],
                         LAMBDA V :
                    IF nDoS > 0 /\ src.punish
                    THEN Misbehaving(V, src.nodeid, nDoS) ELSE V)
            ELSE W,
            LAMBDA W1 :
       IF fHave
       THEN [W1 EXCEPT !.mapBlockSource = Restrict(@, DOMAIN @ \ {hash})]
       ELSE W1)

\* AcceptBlockHeader: a header that extends the index is added to it.
HeaderConnects(W, header) ==
    /\ header.hash \in BlockHashes
    /\ \/ IndexOfHash(header.hash) \in W.mapBlockIndex
       \/ /\ pprev(IndexOfHash(header.hash)) \in W.mapBlockIndex
          /\ header.hashPrevBlock = GetBlockHash(pprev(IndexOfHash(header.hash)))

AcceptBlockHeader(W, header) ==
    [W EXCEPT !.mapBlockIndex = @ \cup {IndexOfHash(header.hash)}]

\* ----------------------------------------------------------- transactions
\* A transaction is its txid, the txids its inputs spend, the number of its
\* outputs, its serialized size and the verdict of the script checks, which
\* run once all inputs are found.  FundingTx is confirmed from the start.
FundingTx == 0
TxHashes == 1..NumTx
REJECT_INVALID == 16
REJECT_ALREADY_KNOWN == 18

\* Two transactions spend the funding coin; 3 spends 1 and fails the script
\* checks, 4 spends 1 and 2; any further transaction spends the one before.
TxOf(hash) ==
    [hash |-> hash,
     vin |-> IF hash \in {1, 2} THEN {FundingTx}
             ELSE IF hash = 3 THEN {1}
             ELSE IF hash = 4 THEN {1, 2}
             ELSE {hash - 1},
     nOut |-> IF hash = 1 THEN 2 ELSE 1,
     nSize |-> 250,
     fValid |-> hash # 3,
     nDoS |-> IF hash = 3 THEN 10 ELSE 0,
     chRejectCode |-> IF hash = 3 THEN REJECT_INVALID ELSE 0]

\* pblock->vtx of the block at pindex: the first block confirms 1, 2 and 4.
BlockTxs(pindex) == IF pindex = 1 THEN {1, 2, 4} \cap TxHashes ELSE {}

\* The txids the coin view knows: those of the active chain's blocks.
HaveCoin(W, hash) ==
    hash = FundingTx \/ \E i \in 1..W.pindexTip : hash \in BlockTxs(i)

\* AcceptToMemoryPool(mempool, state, ptx, true, &fMissingInputs): the result
\* carries the world, the return value, fMissingInputs and what the
\* validation state reports.
AcceptToMemoryPool(W, tx) ==
    LET verdict(fOk, fMissing, fInvalid, nDoS, code) ==
            [W |-> IF fOk THEN [W EXCEPT !.mempool = @ \cup {tx.hash}] ELSE W,
             fAccepted |-> fOk, fMissingInputs |-> fMissing,
             fInvalid |-> fInvalid, nDoS |-> nDoS, chRejectCode |-> code]
    IN IF tx.hash \in W.mempool
       THEN verdict(FALSE, FALSE, TRUE, 0, REJECT_ALREADY_KNOWN)
       ELSE IF HaveCoin(W, tx.hash)
       THEN verdict(FALSE, FALSE, TRUE, 0, REJECT_ALREADY_KNOWN)
       ELSE IF \E prev \in tx.vin : prev \notin W.mempool /\ ~HaveCoin(W, prev)
       THEN verdict(FALSE, TRUE, FALSE, 0, 0)
       ELSE IF ~tx.fValid
       THEN verdict(FALSE, FALSE, TRUE, tx.nDoS, tx.chRejectCode)
       ELSE verdict(TRUE, FALSE, FALSE, 0, 0)

RECURSIVE EraseOrphanTxs(_, _)
EraseOrphanTxs(W, vErase) ==
    IF vErase = <<>> THEN W
    ELSE EraseOrphanTxs(EraseOrphanTx(W, Head(vErase)), Tail(vErase))

\* A set's elements in increasing order, the order std::set iterates in.
RECURSIVE InOrder(_)
InOrder(S) ==
    IF S = {} THEN <<>>
    ELSE LET least == CHOOSE x \in S : \A y \in S : x <= y
         IN <<least>> \o InOrder(S \ {least})

RECURSIVE Concat(_)
Concat(seqs) == IF seqs = <<>> THEN <<>> ELSE Head(seqs) \o Concat(Tail(seqs))

\* PeerLogicValidation::BlockConnected(pblock, pindex, vtxConflicted)
BlockConnected(W, pindex) ==
    LET byPrev == W.mapOrphanTransactionsByPrev
        OfPrev(prev) == IF prev \in DOMAIN byPrev THEN InOrder(byPrev[prev])
                        ELSE <<>>
        OfTx(hash) == LET vin == InOrder(TxOf(hash).vin)
                      IN Concat([j \in 1..Len(vin) |-> OfPrev(vin[j])])
        vtx == InOrder(BlockTxs(pindex))
        vOrphanErase == Concat([k \in 1..Len(vtx) |-> OfTx(vtx[k])])
    IN EraseOrphanTxs(W, vOrphanErase)

\* ActivateBestChain: the tip moves to the furthest block all of whose
\* ancestors are stored; BlockChecked fires for every block connected.
BestTip(W) ==
    CHOOSE i \in W.mapBlockIndex :
        /\ HasChainTx(W, i)
        /\ \A j \in W.mapBlockIndex : HasChainTx(W, j) => nChainWork(j) <= nChainWork(i)

RECURSIVE ConnectBlocks(_, _, _)
ConnectBlocks(W, from, to) ==
    IF from >= to THEN W
    ELSE LET pindex == GetAncestor(to, nHeight(from) + 1)
         IN ConnectBlocks(
                BlockConnected(
                    BlockChecked([W EXCEPT !.pindexTip = pindex,
                                           !.mempool = @ \ BlockTxs(pindex)],
                                 GetBlockHash(pindex), FALSE, 0, 0),
                    pindex),
                pindex, to)

\* ProcessNewBlock(state, chainparams, pfrom, pblock, forceProcessing):
\* blk.fValid is the verdict of the block checks, blk.nDoS and
\* blk.chRejectCode what the validation state reports when they fail.
ProcessNewBlock(W, blk, forceProcessing) ==
    IF ~blk.fValid
    THEN BlockChecked(W, blk.hash, TRUE, blk.nDoS, blk.chRejectCode)
    ELSE LET pindex == IndexOfHash(blk.hash)
         IN With([W EXCEPT !.mapBlockIndex = @ \cup {pindex}], LAMBDA W1 :
            IF pindex \in W1.setHaveData THEN W1
            ELSE IF ~forceProcessing
                    /\ ~(nChainWork(pindex) > nChainWork(W1.pindexTip))
            THEN W1
            ELSE With([W1 EXCEPT !.setHaveData = @ \cup {pindex}], LAMBDA W2 :
                 ConnectBlocks(W2, W2.pindexTip, BestTip(W2))))

\* ------------------------------------------------------- ProcessGetData
BlockInvTypes == {"block", "filtered"}

\* for (pair : merkleBlock.vMatchedTxn) PushMessage(TX, block.vtx[pair.first])
RECURSIVE PushTxs(_, _, _)
PushTxs(W, pfrom, vMatchedTxn) ==
    IF vMatchedTxn = <<>> THEN W
    ELSE PushTxs(PushMessage(W, pfrom, "tx", <<Head(vMatchedTxn)>>), pfrom,
                 Tail(vMatchedTxn))

\* The block branch of ProcessGetData for one entry.  Every message carries
\* a sequence of hashes: the hash served, or the hashes not found.
ServeBlock(W, pfrom, inv, env) ==
    LET known == inv.hash \in BlockHashes
                    /\ IndexOfHash(inv.hash) \in W.mapBlockIndex
        pindex == IndexOfHash(inv.hash)
        onChain == known /\ pindex <= W.pindexTip
        limited == /\ onChain /\ env.fOutboundTargetReached
                   /\ (env.fHistorical \/ inv.type = "filtered")
                   /\ ~W.vNodes[pfrom].fWhitelisted
        send == onChain /\ ~limited /\ pindex \in W.setHaveData
    IN With(IF limited THEN [W EXCEPT !.vNodes[pfrom].fDisconnect = TRUE]
            ELSE W,
            LAMBDA W1 :
       IF ~send THEN W1
       ELSE
       With(IF inv.type = "block"
            THEN PushMessage(W1, pfrom, "block", <<inv.hash>>)
            ELSE IF env.fFilterLoaded
            THEN PushTxs(PushMessage(W1, pfrom, "merkleblock", <<inv.hash>>),
                         pfrom, InOrder(BlockTxs(pindex) \cap env.setMatched))
            ELSE W1,
            LAMBDA W2 :
       IF env.fHashContinue
       THEN PushMessage(W2, pfrom, "inv", <<GetBlockHash(W2.pindexTip)>>)
       ELSE W2))

\* The while loop of ProcessGetData; i is the position of the iterator it,
\* r carries the world, vNotFound, it and whether the interrupt ended it.
RECURSIVE GetDataLoop(_, _, _, _)
GetDataLoop(r, pfrom, i, env) ==
    LET vRecvGetData == r.W.vNodes[pfrom].vRecvGetData
    IN IF i > Len(vRecvGetData) \/ env.fPauseSend THEN [r EXCEPT !.it = i]
       ELSE IF env.nInterruptAt = i
       THEN [r EXCEPT !.it = i, !.interrupted = TRUE]
       ELSE
       LET inv == vRecvGetData[i]
       IN IF inv.type \in BlockInvTypes
          THEN [r EXCEPT !.W = ServeBlock(@, pfrom, inv, env), !.it = i + 1]
          ELSE IF inv.type = "tx"
          THEN GetDataLoop(
                   IF inv.hash \in env.mapRelay
                   THEN [r EXCEPT !.W = PushMessage(@, pfrom, "tx", <<inv.hash>>)]
                   ELSE [r EXCEPT !.vNotFound = Append(@, inv.hash)],
                   pfrom, i + 1, env)
          ELSE IF inv.type = "stx"
          THEN GetDataLoop(
                   IF inv.hash \in env.stxPool
                   THEN [r EXCEPT !.W = PushMessage(@, pfrom, "stx", <<inv.hash>>)]
                   ELSE [r EXCEPT !.vNotFound = Append(@, inv.hash)],
                   pfrom, i + 1, env)
          ELSE GetDataLoop(r, pfrom, i + 1, env)

\* ProcessGetData that leaves the entries it served in the queue.
ProcessGetDataNoErase(W, pfrom, env) ==
    With(GetDataLoop([W |-> W, vNotFound |-> <<>>, it |-> 1,
                      interrupted |-> FALSE], pfrom, 1, env),
         LAMBDA r :
    IF r.interrupted \/ r.vNotFound = <<>> THEN r.W
    ELSE PushMessage(r.W, pfrom, "notfound", r.vNotFound))

\* ProcessGetData(pfrom, connman, consensusParams, interruptMsgProc)
ProcessGetData(W, pfrom, env) ==
    With(GetDataLoop([W |-> W, vNotFound |-> <<>>, it |-> 1,
                      interrupted |-> FALSE], pfrom, 1, env),
         LAMBDA r :
    IF r.interrupted THEN r.W
    ELSE
    With([r.W EXCEPT !.vNodes[pfrom].vRecvGetData = SubSeq(@, r.it, Len(@))],
         LAMBDA W1 :
    IF r.vNotFound # <<>>
    THEN PushMessage(W1, pfrom, "notfound", r.vNotFound) ELSE W1))

\* ------------------------------------------------------- ProcessMessage
FilterCommands == {"filterload", "filteradd", "filterclear"}

HandleVersion(W, pfrom, arg, env) ==
    LET node == W.vNodes[pfrom]
    IN IF node.nVersion # 0
       THEN Misbehaving(PushMessage(W, pfrom, "reject", "version"), pfrom, 1)
       ELSE IF ~arg.fServicesOk
       THEN [PushMessage(W, pfrom, "reject", "version")
                EXCEPT !.vNodes[pfrom].fDisconnect = TRUE]
       ELSE IF arg.nVersion < MIN_PROTO_VERSION
       THEN [PushMessage(W, pfrom, "reject", "version")
                EXCEPT !.vNodes[pfrom].fDisconnect = TRUE]
       ELSE IF node.fInbound /\ arg.fSelfNonce
       THEN [W EXCEPT !.vNodes[pfrom].fDisconnect = TRUE]
       ELSE
       With(IF node.fInbound THEN PushNodeVersion(W, pfrom) ELSE W, LAMBDA W1 :
       With(PushMessage(W1, pfrom, "verack", 0), LAMBDA W2 :
       With([W2 EXCEPT
               !.vNodes[pfrom].fClient = ~arg.fNodeNetwork,
               !.vNodes[pfrom].fRelayTxes = arg.fRelay,
               !.vNodes[pfrom].nStartingHeight = arg.nStartingHeight,
               !.vNodes[pfrom].nSendVersion = Min(arg.nVersion, PROTOCOL_VERSION),
               !.vNodes[pfrom].nVersion = arg.nVersion],
            LAMBDA W3 :
       With(UpdatePreferredDownload(W3, pfrom), LAMBDA W4 :
       With(IF ~node.fInbound /\ (node.fOneShot \/ env.nAddressCount < 1000)
            THEN [PushMessage(W4, pfrom, "getaddr", 0)
                     EXCEPT !.vNodes[pfrom].fGetAddr = TRUE]
            ELSE W4,
            LAMBDA W5 :
       IF node.fFeeler
       THEN IF node.fInbound THEN Die(W5, "assert")
            ELSE [W5 EXCEPT !.vNodes[pfrom].fDisconnect = TRUE]
       ELSE W5)))))

\* The VERACK handler without the SENDHEADERS announcement.
HandleVerackSilent(W, pfrom) ==
    LET node == W.vNodes[pfrom]
        W1 == [W EXCEPT !.vNodes[pfrom].nRecvVersion =
                  Min(node.nVersion, PROTOCOL_VERSION)]
        W2 == IF ~node.fInbound
              THEN [W1 EXCEPT !.mapNodeState[pfrom].fCurrentlyConnected = TRUE]
              ELSE W1
    IN [W2 EXCEPT !.vNodes[pfrom].fSuccessfullyConnected = TRUE]

HandleVerack(W, pfrom) ==
    LET node == W.vNodes[pfrom]
        W1 == [W EXCEPT !.vNodes[pfrom].nRecvVersion =
                  Min(node.nVersion, PROTOCOL_VERSION)]
        W2 == IF ~node.fInbound
              THEN [W1 EXCEPT !.mapNodeState[pfrom].fCurrentlyConnected = TRUE]
              ELSE W1
        W3 == IF node.nVersion >= SENDHEADERS_VERSION
              THEN PushMessage(W2, pfrom, "sendheaders", 0) ELSE W2
    IN [W3 EXCEPT !.vNodes[pfrom].fSuccessfullyConnected = TRUE]

\* AlreadyHave(inv) for a block inv.
AlreadyHaveBlock(W, hash) == HaveIndex(W, hash)

\* The loop over vInv without the test of mapBlocksInFlight.
RECURSIVE InvLoopRequestsAgain(_, _, _, _, _)
InvLoopRequestsAgain(r, pfrom, vInv, nInv, env) ==
    IF nInv > Len(vInv) THEN r
    ELSE IF env.nInterruptAt = nInv THEN [r EXCEPT !.interrupted = TRUE]
    ELSE
    LET inv == vInv[nInv]
        fAlreadyHave == AlreadyHaveBlock(r.W, inv.hash)
    IN With(UpdateBlockAvailability(r.W, pfrom, inv.hash), LAMBDA W1 :
       IF ~fAlreadyHave /\ ~env.fImporting
       THEN With(PushMessage(W1, pfrom, "getheaders", inv.hash), LAMBDA W2 :
            IF env.fCanDirectFetch
               /\ W2.mapNodeState[pfrom].nBlocksInFlight
                      < MAX_BLOCKS_IN_TRANSIT_PER_PEER
            THEN InvLoopRequestsAgain([r EXCEPT
                            !.W = MarkBlockAsInFlight(W2, pfrom, inv.hash,
                                                      NoIndex, env.nNow),
                            !.vToFetch = Append(@, inv.hash)],
                         pfrom, vInv, nInv + 1, env)
            ELSE InvLoopRequestsAgain([r EXCEPT !.W = W2], pfrom, vInv,
                                      nInv + 1, env))
       ELSE InvLoopRequestsAgain([r EXCEPT !.W = W1], pfrom, vInv, nInv + 1, env))

\* The loop over vInv; r.W is the world, r.vToFetch the getdata collected,
\* r.interrupted whether interruptMsgProc made the handler return.
RECURSIVE InvLoop(_, _, _, _, _)
InvLoop(r, pfrom, vInv, nInv, env) ==
    IF nInv > Len(vInv) THEN r
    ELSE IF env.nInterruptAt = nInv THEN [r EXCEPT !.interrupted = TRUE]
    ELSE
    LET inv == vInv[nInv]
        fAlreadyHave == AlreadyHaveBlock(r.W, inv.hash)
    IN With(UpdateBlockAvailability(r.W, pfrom, inv.hash), LAMBDA W1 :
       IF ~fAlreadyHave /\ ~env.fImporting
          /\ inv.hash \notin DOMAIN W1.mapBlocksInFlight
       THEN With(PushMessage(W1, pfrom, "getheaders", inv.hash), LAMBDA W2 :
            IF env.fCanDirectFetch
               /\ W2.mapNodeState[pfrom].nBlocksInFlight
                      < MAX_BLOCKS_IN_TRANSIT_PER_PEER
            THEN InvLoop([r EXCEPT
                            !.W = MarkBlockAsInFlight(W2, pfrom, inv.hash,
                                                      NoIndex, env.nNow),
                            !.vToFetch = Append(@, inv.hash)],
                         pfrom, vInv, nInv + 1, env)
            ELSE InvLoop([r EXCEPT !.W = W2], pfrom, vInv, nInv + 1, env))
       ELSE InvLoop([r EXCEPT !.W = W1], pfrom, vInv, nInv + 1, env))

HandleInv(W, pfrom, arg, env) ==
    IF arg.nSize > MAX_INV_SZ THEN Misbehaving(W, pfrom, 20)
    ELSE With(InvLoop([W |-> W, vToFetch |-> <<>>, interrupted |-> FALSE],
                      pfrom, arg.vInv, 1, env),
              LAMBDA r :
         IF r.interrupted THEN r.W
         ELSE IF r.vToFetch # <<>>
         THEN PushMessage(r.W, pfrom, "getdata", r.vToFetch)
         ELSE r.W)

\* The loop that accepts the headers; stops at the first that fails.
RECURSIVE HeadersLoop(_, _, _, _)
HeadersLoop(r, pfrom, headers, n) ==
    IF n > Len(headers) \/ r.failed THEN r
    ELSE
    LET header == headers[n]
    IN IF r.pindexLast # NoIndex
          /\ header.hashPrevBlock # GetBlockHash(r.pindexLast)
       THEN [r EXCEPT !.W = Misbehaving(r.W, pfrom, 20), !.failed = TRUE]
       ELSE IF ~HeaderConnects(r.W, header)
       THEN [r EXCEPT !.W = Misbehaving(r.W, pfrom, header.nDoS),
                      !.failed = TRUE]
       ELSE HeadersLoop([r EXCEPT !.W = AcceptBlockHeader(r.W, header),
                                  !.pindexLast = IndexOfHash(header.hash)],
                        pfrom, headers, n + 1)

\* The walk back from pindexLast that collects the blocks to fetch.
RECURSIVE DirectFetchWalk(_, _, _)
DirectFetchWalk(W, pindexWalk, vToFetch) ==
    IF pindexWalk # NoIndex /\ ~ChainContains(W, pindexWalk)
       /\ Len(vToFetch) <= MAX_BLOCKS_IN_TRANSIT_PER_PEER
    THEN DirectFetchWalk(W, pprev(pindexWalk),
             IF ~HaveData(W, pindexWalk)
                /\ GetBlockHash(pindexWalk) \notin DOMAIN W.mapBlocksInFlight
             THEN Append(vToFetch, pindexWalk) ELSE vToFetch)
    ELSE [pindexWalk |-> pindexWalk, vToFetch |-> vToFetch]

\* BOOST_REVERSE_FOREACH over vToFetch.
RECURSIVE DirectFetchLoop(_, _, _, _, _)
DirectFetchLoop(r, pfrom, vToFetch, i, env) ==
    IF i < 1 THEN r
    ELSE IF r.W.mapNodeState[pfrom].nBlocksInFlight >= MAX_BLOCKS_IN_TRANSIT_PER_PEER
    THEN r
    ELSE DirectFetchLoop(
             [W |-> MarkBlockAsInFlight(r.W, pfrom, GetBlockHash(vToFetch[i]),
                                        vToFetch[i], env.nNow),
              vGetData |-> Append(r.vGetData, GetBlockHash(vToFetch[i]))],
             pfrom, vToFetch, i - 1, env)

HandleHeaders(W, pfrom, arg, env) ==
    IF arg.nCount > MAX_HEADERS_RESULTS THEN Misbehaving(W, pfrom, 20)
    ELSE IF arg.nCount = 0 THEN W
    ELSE
    With(HeadersLoop([W |-> W, pindexLast |-> NoIndex, failed |-> FALSE],
                     pfrom, arg.headers, 1),
         LAMBDA r :
    IF r.failed THEN r.W
    ELSE
    With(r.pindexLast, LAMBDA pindexLast :
    With(IF pindexLast # NoIndex
         THEN UpdateBlockAvailability(r.W, pfrom, GetBlockHash(pindexLast))
         ELSE r.W,
         LAMBDA W1 :
    With(IF arg.nCount = MAX_HEADERS_RESULTS /\ pindexLast # NoIndex
         THEN PushMessage(W1, pfrom, "getheaders", NullHash)
         ELSE W1,
         LAMBDA W2 :
    IF env.fCanDirectFetch /\ IsValidTree(W2, pindexLast)
       /\ nChainWork(W2.pindexTip) <= nChainWork(pindexLast)
    THEN With(DirectFetchWalk(W2, pindexLast, <<>>), LAMBDA walk :
         IF ~ChainContains(W2, walk.pindexWalk) THEN W2
         ELSE With(DirectFetchLoop([W |-> W2, vGetData |-> <<>>],
                       pfrom, walk.vToFetch, Len(walk.vToFetch), env),
                   LAMBDA f :
              IF Len(f.vGetData) > 0
              THEN PushMessage(f.W, pfrom, "getdata", f.vGetData)
              ELSE f.W))
    ELSE W2))))

HandleBlock(W, pfrom, arg, env) ==
    LET forceProcessing ==
            (W.vNodes[pfrom].fWhitelisted /\ ~env.fIBD)
                \/ MarkBlockAsReceivedResult(W, arg.hash)
    IN With(MarkBlockAsReceived(W, arg.hash, env.nNow), LAMBDA W1 :
       With(IF arg.hash \in DOMAIN W1.mapBlockSource THEN W1
            ELSE [W1 EXCEPT !.mapBlockSource =
                     (arg.hash :> [nodeid |-> pfrom, punish |-> TRUE]) @@ @],
            LAMBDA W2 :
       With(ProcessNewBlock(W2, arg, forceProcessing), LAMBDA W3 :
       IF ~arg.fValid
       THEN With(PushMessage(W3, pfrom, "reject", "block"), LAMBDA W4 :
            IF arg.nDoS > 0 THEN Misbehaving(W4, pfrom, arg.nDoS) ELSE W4)
       ELSE W3)))

\* AlreadyHave for a tx inv that never resets the reject filter.
AlreadyHaveTxNoReset(W, hash) ==
    [W |-> W,
     fHave |-> \/ hash \in W.recentRejects
               \/ hash \in W.mempool
               \/ hash \in DOMAIN W.mapOrphanTransactions
               \/ HaveCoin(W, hash)]

\* AlreadyHave(inv) for a tx inv: the world (the reject filter is reset when
\* the tip is not the one it was last reset at) and the answer.
AlreadyHaveTx(W, hash) ==
    With(IF GetBlockHash(W.pindexTip) # W.hashRecentRejectsChainTip
         THEN [W EXCEPT !.hashRecentRejectsChainTip = GetBlockHash(W.pindexTip),
                        !.recentRejects = {}]
         ELSE W,
         LAMBDA W1 :
    [W |-> W1,
     fHave |-> \/ hash \in W1.recentRejects
               \/ hash \in W1.mempool
               \/ hash \in DOMAIN W1.mapOrphanTransactions
               \/ HaveCoin(W1, hash)])

\* pnode->PushInventory(inv) for a transaction inv.
PushInventory(node, hash) ==
    IF hash \in node.filterInventoryKnown THEN node
    ELSE [node EXCEPT !.setInventoryTxToSend = @ \cup {hash}]

\* RelayTransaction that queues the inv whatever the peer knows.
RelayTransactionToAll(W, hash) ==
    [W EXCEPT !.sent = Append(@, [to |-> NoNode, cmd |-> "relay", arg |-> hash]),
              !.vNodes = [n \in DOMAIN @ |->
                             [@[n] EXCEPT !.setInventoryTxToSend = @ \cup {hash}]]]

\* RelayTransaction(tx, connman): the inv is queued for every node; the
\* "relay" entry of sent records the call.
RelayTransaction(W, hash) ==
    [W EXCEPT !.sent = Append(@, [to |-> NoNode, cmd |-> "relay", arg |-> hash]),
              !.vNodes = [n \in DOMAIN @ |-> PushInventory(@[n], hash)]]

\* pfrom->AskFor(inv)
AskFor(W, pnode, hash) == [W EXCEPT !.vNodes[pnode].setAskFor = @ \cup {hash}]

\* The loop that never skips an orphan of a peer it has charged.
RECURSIVE OrphanPassChargesAgain(_, _, _)
OrphanPassChargesAgain(r, orphans, i) ==
    IF i > Len(orphans) THEN r
    ELSE IF orphans[i] \notin DOMAIN r.W.mapOrphanTransactions
    THEN [r EXCEPT !.W = Die(@, "ub")]
    ELSE
    LET orphan == r.W.mapOrphanTransactions[orphans[i]]
        orphanId == orphan.tx.hash
        fromPeer == orphan.fromPeer
    IN IF FALSE THEN OrphanPassChargesAgain(r, orphans, i + 1)
       ELSE
       With(AcceptToMemoryPool(r.W, orphan.tx), LAMBDA a :
       IF a.fAccepted
       THEN OrphanPassChargesAgain(
                [r EXCEPT !.W = RelayTransaction(a.W, orphanId),
                          !.vWorkQueue = @ \o [k \in 1..orphan.tx.nOut |-> orphanId],
                          !.vEraseQueue = Append(@, orphanId)],
                orphans, i + 1)
       ELSE IF ~a.fMissingInputs
       THEN LET fPunish == a.fInvalid /\ a.nDoS > 0
            IN OrphanPassChargesAgain(
                   [r EXCEPT
                      !.W = [(IF fPunish THEN Misbehaving(a.W, fromPeer, a.nDoS)
                              ELSE a.W)
                                EXCEPT !.recentRejects = @ \cup {orphanId}],
                      !.setMisbehaving = IF fPunish THEN @ \cup {fromPeer} ELSE @,
                      !.vEraseQueue = Append(@, orphanId)],
                   orphans, i + 1)
       ELSE OrphanPassChargesAgain([r EXCEPT !.W = a.W], orphans, i + 1))

\* The loop over the orphans that spend one work-queue entry.  r carries the
\* world, vWorkQueue, vEraseQueue and setMisbehaving.
RECURSIVE OrphanPass(_, _, _)
OrphanPass(r, orphans, i) ==
    IF i > Len(orphans) THEN r
    ELSE IF orphans[i] \notin DOMAIN r.W.mapOrphanTransactions
    THEN [r EXCEPT !.W = Die(@, "ub")]
    ELSE
    LET orphan == r.W.mapOrphanTransactions[orphans[i]]
        orphanId == orphan.tx.hash
        fromPeer == orphan.fromPeer
    IN IF fromPeer \in r.setMisbehaving THEN OrphanPass(r, orphans, i + 1)
       ELSE
       With(AcceptToMemoryPool(r.W, orphan.tx), LAMBDA a :
       IF a.fAccepted
       THEN OrphanPass(
                [r EXCEPT !.W = RelayTransaction(a.W, orphanId),
                          !.vWorkQueue = @ \o [k \in 1..orphan.tx.nOut |-> orphanId],
                          !.vEraseQueue = Append(@, orphanId)],
                orphans, i + 1)
       ELSE IF ~a.fMissingInputs
       THEN LET fPunish == a.fInvalid /\ a.nDoS > 0
            IN OrphanPass(
                   [r EXCEPT
                      !.W = [(IF fPunish THEN Misbehaving(a.W, fromPeer, a.nDoS)
                              ELSE a.W)
                                EXCEPT !.recentRejects = @ \cup {orphanId}],
                      !.setMisbehaving = IF fPunish THEN @ \cup {fromPeer} ELSE @,
                      !.vEraseQueue = Append(@, orphanId)],
                   orphans, i + 1)
       ELSE OrphanPass([r EXCEPT !.W = a.W], orphans, i + 1))

\* while (!vWorkQueue.empty())
RECURSIVE OrphanWork(_)
OrphanWork(r) ==
    IF r.vWorkQueue = <<>> \/ r.W.fault # "none" THEN r
    ELSE LET hash == Head(r.vWorkQueue)
             byPrev == r.W.mapOrphanTransactionsByPrev
             popped == [r EXCEPT !.vWorkQueue = Tail(@)]
         IN IF hash \notin DOMAIN byPrev THEN OrphanWork(popped)
            ELSE OrphanWork(OrphanPass(popped, InOrder(byPrev[hash]), 1))

\* The ask-for of every parent we do not have yet.
RECURSIVE AskForParents(_, _, _, _)
AskForParents(W, pfrom, vin, i) ==
    IF i > Len(vin) THEN W
    ELSE With(AlreadyHaveTx(W, vin[i]), LAMBDA ah :
         AskForParents(IF ah.fHave THEN ah.W ELSE AskFor(ah.W, pfrom, vin[i]),
                       pfrom, vin, i + 1))

HandleTx(W, pfrom, tx, env) ==
    IF ~env.fRelayTxes /\ (~W.vNodes[pfrom].fWhitelisted \/ ~env.fWhitelistRelay)
    THEN W
    ELSE
    With(AlreadyHaveTx([W EXCEPT !.vNodes[pfrom].filterInventoryKnown =
                                     @ \cup {tx.hash},
                                 !.vNodes[pfrom].setAskFor = @ \ {tx.hash}],
                       tx.hash),
         LAMBDA ah :
    With(IF ah.fHave
         THEN [W |-> ah.W, fAccepted |-> FALSE, fMissingInputs |-> FALSE,
               fInvalid |-> FALSE, nDoS |-> 0, chRejectCode |-> 0]
         ELSE AcceptToMemoryPool(ah.W, tx),
         LAMBDA a :
    With(IF a.fAccepted
         THEN With(OrphanWork([W |-> RelayTransaction(a.W, tx.hash),
                               vWorkQueue |-> [k \in 1..tx.nOut |-> tx.hash],
                               vEraseQueue |-> <<>>, setMisbehaving |-> {}]),
                   LAMBDA r : EraseOrphanTxs(r.W, r.vEraseQueue))
         ELSE IF a.fMissingInputs
         THEN IF \E prev \in tx.vin : prev \in a.W.recentRejects
              THEN [a.W EXCEPT !.recentRejects = @ \cup {tx.hash}]
              ELSE LimitOrphanTxSize(
                       AddOrphanTx(AskForParents(a.W, pfrom, InOrder(tx.vin), 1),
                                   tx, pfrom),
                       Max(0, env.nMaxOrphanTx), env.vRandHash).W
         ELSE With([a.W EXCEPT !.recentRejects = @ \cup {tx.hash}], LAMBDA V :
              IF W.vNodes[pfrom].fWhitelisted /\ env.fWhitelistForceRelay
                 /\ (~a.fInvalid \/ a.nDoS = 0)
              THEN RelayTransaction(V, tx.hash) ELSE V),
         LAMBDA W1 :
    IF a.fInvalid
    THEN With(IF a.chRejectCode > 0 /\ a.chRejectCode < REJECT_INTERNAL
              THEN PushMessage(W1, pfrom, "reject", "tx") ELSE W1,
              LAMBDA W2 :
         IF a.nDoS > 0 THEN Misbehaving(W2, pfrom, a.nDoS) ELSE W2)
    ELSE W1)))

HandleGetData(W, pfrom, arg, env) ==
    IF arg.nSize > MAX_INV_SZ THEN Misbehaving(W, pfrom, 20)
    ELSE ProcessGetData([W EXCEPT !.vNodes[pfrom].vRecvGetData = @ \o arg.vInv],
                        pfrom, env)

\* The loop over vAddr.  An address is a record of its key and of what the
\* tests of the loop find: fServices (it offers the required services),
\* fRecent (nTime > nSince after the clamp), fRoutable, fReachable.  The
\* "relayaddr" and "addnew" entries of sent record the calls of RelayAddress
\* and AddNewAddresses.
RECURSIVE AddrLoop(_, _, _, _, _)
AddrLoop(r, pfrom, vAddr, nSize, i) ==
    IF i > Len(vAddr) THEN r
    ELSE
    LET addr == vAddr[i]
    IN IF ~addr.fServices THEN AddrLoop(r, pfrom, vAddr, nSize, i + 1)
       ELSE
       With([r.W EXCEPT !.vNodes[pfrom].addrKnown = @ \cup {addr.key}],
            LAMBDA W1 :
       With(IF addr.fRecent /\ ~W1.vNodes[pfrom].fGetAddr /\ nSize <= 10
               /\ addr.fRoutable
            THEN [W1 EXCEPT !.sent = Append(@, [to |-> NoNode, cmd |-> "relayaddr",
                                                arg |-> addr.key])]
            ELSE W1,
            LAMBDA W2 :
       AddrLoop([W |-> W2,
                 vAddrOk |-> IF addr.fReachable THEN Append(r.vAddrOk, addr.key)
                             ELSE r.vAddrOk],
                pfrom, vAddr, nSize, i + 1)))

\* ADDR: arg.nSize is vAddr.size(), arg.vAddr the addresses that matter.
HandleAddr(W, pfrom, arg, env) ==
    IF env.nAddressCount > 1000 THEN W
    ELSE IF arg.nSize > 1000 THEN Misbehaving(W, pfrom, 20)
    ELSE
    With(AddrLoop([W |-> W, vAddrOk |-> <<>>], pfrom, arg.vAddr, arg.nSize, 1),
         LAMBDA r :
    With([r.W EXCEPT !.sent = Append(@, [to |-> NoNode, cmd |-> "addnew",
                                         arg |-> r.vAddrOk])],
         LAMBDA W1 :
    With(IF arg.nSize < 1000
         THEN [W1 EXCEPT !.vNodes[pfrom].fGetAddr = FALSE] ELSE W1,
         LAMBDA W2 :
    IF W2.vNodes[pfrom].fOneShot
    THEN [W2 EXCEPT !.vNodes[pfrom].fDisconnect = TRUE] ELSE W2)))

\* PING: the nonce is echoed.
HandlePing(W, pfrom, arg) == PushMessage(W, pfrom, "pong", arg.nonce)

\* PONG that clears the outstanding ping only on a matching nonce.
HandlePongMatchOnly(W, pfrom, arg, env) ==
    LET node == W.vNodes[pfrom]
        pingUsecTime == env.nTimeReceived - node.nPingUsecStart
    IN IF ~arg.fShort /\ node.nPingNonceSent # 0
          /\ arg.nonce = node.nPingNonceSent
       THEN IF pingUsecTime > 0
            THEN [W EXCEPT !.vNodes[pfrom].nPingUsecTime = pingUsecTime,
                           !.vNodes[pfrom].nMinPingUsecTime =
                               Min(@, pingUsecTime),
                           !.vNodes[pfrom].nPingNonceSent = 0]
            ELSE [W EXCEPT !.vNodes[pfrom].nPingNonceSent = 0]
       ELSE W

\* PONG: arg.fShort says the payload is shorter than a nonce.
HandlePong(W, pfrom, arg, env) ==
    LET node == W.vNodes[pfrom]
        pingUsecEnd == env.nTimeReceived
        pingUsecTime == pingUsecEnd - node.nPingUsecStart
        fMatch == ~arg.fShort /\ node.nPingNonceSent # 0
                     /\ arg.nonce = node.nPingNonceSent
        bPingFinished ==
            IF arg.fShort THEN TRUE
            ELSE IF node.nPingNonceSent = 0 THEN FALSE
            ELSE IF arg.nonce = node.nPingNonceSent THEN TRUE
            ELSE arg.nonce = 0
    IN With(IF fMatch /\ pingUsecTime > 0
            THEN [W EXCEPT !.vNodes[pfrom].nPingUsecTime = pingUsecTime,
                           !.vNodes[pfrom].nMinPingUsecTime =
                               Min(@, pingUsecTime)]
            ELSE W,
            LAMBDA W1 :
       IF bPingFinished
       THEN [W1 EXCEPT !.vNodes[pfrom].nPingNonceSent = 0] ELSE W1)

HandleSendHeaders(W, pfrom) ==
    [W EXCEPT !.mapNodeState[pfrom].fPreferHeaders = TRUE]

\* ProcessMessage that lets a peer without a version through to the handlers.
ProcessMessageNoVersionCheck(W, pfrom, msg, env) ==
    IF env.fDropMessage THEN W
    ELSE IF ~env.fNodeBloom /\ msg.cmd \in FilterCommands
            /\ W.vNodes[pfrom].nVersion >= NO_BLOOM_VERSION
    THEN Misbehaving(W, pfrom, 100)
    ELSE IF ~env.fNodeBloom /\ msg.cmd \in FilterCommands
            /\ env.fEnforceNodeBloom
    THEN [W EXCEPT !.vNodes[pfrom].fDisconnect = TRUE]
    ELSE IF msg.cmd = "version" THEN HandleVersion(W, pfrom, msg.arg, env)
    ELSE IF msg.cmd = "verack" THEN HandleVerack(W, pfrom)
    ELSE IF msg.cmd = "sendheaders" THEN HandleSendHeaders(W, pfrom)
    ELSE W

\* ProcessMessage(pfrom, strCommand, vRecv, ...)
ProcessMessage(W, pfrom, msg, env) ==
    IF env.fDropMessage THEN W
    ELSE IF ~env.fNodeBloom /\ msg.cmd \in FilterCommands
            /\ W.vNodes[pfrom].nVersion >= NO_BLOOM_VERSION
    THEN Misbehaving(W, pfrom, 100)
    ELSE IF ~env.fNodeBloom /\ msg.cmd \in FilterCommands
            /\ env.fEnforceNodeBloom
    THEN [W EXCEPT !.vNodes[pfrom].fDisconnect = TRUE]
    ELSE IF msg.cmd = "version" THEN HandleVersion(W, pfrom, msg.arg, env)
    ELSE IF W.vNodes[pfrom].nVersion = 0 THEN Misbehaving(W, pfrom, 1)
    ELSE IF msg.cmd = "verack" THEN HandleVerack(W, pfrom)
    ELSE IF msg.cmd = "addr" THEN HandleAddr(W, pfrom, msg.arg, env)
    ELSE IF msg.cmd = "sendheaders" THEN HandleSendHeaders(W, pfrom)
    ELSE IF msg.cmd = "inv" THEN HandleInv(W, pfrom, msg.arg, env)
    ELSE IF msg.cmd = "getdata" THEN HandleGetData(W, pfrom, msg.arg, env)
    ELSE IF msg.cmd = "headers" /\ ~env.fImporting
    THEN HandleHeaders(W, pfrom, msg.arg, env)
    ELSE IF msg.cmd = "tx" THEN HandleTx(W, pfrom, msg.arg, env)
    ELSE IF msg.cmd = "block" /\ ~env.fImporting
    THEN HandleBlock(W, pfrom, msg.arg, env)
    ELSE IF msg.cmd = "ping" THEN HandlePing(W, pfrom, msg.arg)
    ELSE IF msg.cmd = "pong" THEN HandlePong(W, pfrom, msg.arg, env)
    ELSE W

\* ProcessMessages(pfrom, connman, interruptMsgProc): one message taken from
\* the peer's queue; msg.wire says what its envelope looks like.
ProcessMessages(W, pfrom, msg, env) ==
    With(IF W.vNodes[pfrom].vRecvGetData # <<>>
         THEN ProcessGetData(W, pfrom, env) ELSE W,
         LAMBDA W0 :
    IF W0.vNodes[pfrom].fDisconnect THEN W0
    ELSE IF W0.vNodes[pfrom].vRecvGetData # <<>> THEN W0
    ELSE IF env.fPauseSend THEN W0
    ELSE IF msg.wire = "badstart"
    THEN [W0 EXCEPT !.vNodes[pfrom].fDisconnect = TRUE]
    ELSE IF msg.wire = "badheader" \/ msg.wire = "badchecksum" THEN W0
    ELSE With(ProcessMessage(W0, pfrom, msg, env), LAMBDA W1 :
         IF env.nInterruptAt # 0 THEN W1
         ELSE SendRejectsAndCheckIfBanned(W1, pfrom)))

\* --------------------------------------------------------- SendMessages
\* The loop that requests the blocks FindNextBlocksToDownload chose.
RECURSIVE RequestLoop(_, _, _, _, _)
RequestLoop(r, pto, vToDownload, i, env) ==
    IF i > Len(vToDownload) THEN r
    ELSE RequestLoop(
             [W |-> MarkBlockAsInFlight(r.W, pto, GetBlockHash(vToDownload[i]),
                                        vToDownload[i], env.nNow),
              vGetData |-> Append(r.vGetData, GetBlockHash(vToDownload[i]))],
             pto, vToDownload, i + 1, env)

\* The block interval after the service upgrade, whatever the tip says.
TargetSpacingUpgraded(env) == 150

TargetSpacing(env) == IF env.fServiceUpgrade THEN 150 ELSE nTargetSpacing

\* "Message: getdata (blocks)" and the stall bookkeeping after it.
\* The getdata step that asks for a full batch whatever the peer already has
\* in flight.
SendGetDataFullBatch(W, pto, fFetch, env) ==
    IF ~W.vNodes[pto].fClient /\ (fFetch \/ ~env.fIBD)
    THEN With(FindNextBlocksToDownload(W, pto,
                  MAX_BLOCKS_IN_TRANSIT_PER_PEER, NoNode),
              LAMBDA f :
         With(RequestLoop([W |-> f.W, vGetData |-> <<>>], pto,
                          f.vBlocks, 1, env),
              LAMBDA r :
         IF r.vGetData # <<>>
         THEN PushMessage(r.W, pto, "getdata", r.vGetData) ELSE r.W))
    ELSE W

\* The getdata step that restarts the stall clock of a staller each time.
SendGetDataRefreshesStall(W, pto, fFetch, env) ==
    LET state == W.mapNodeState[pto]
    IN IF ~W.vNodes[pto].fClient /\ (fFetch \/ ~env.fIBD)
          /\ state.nBlocksInFlight < MAX_BLOCKS_IN_TRANSIT_PER_PEER
       THEN With(FindNextBlocksToDownload(W, pto,
                     MAX_BLOCKS_IN_TRANSIT_PER_PEER - state.nBlocksInFlight,
                     NoNode),
                 LAMBDA f :
            With(RequestLoop([W |-> f.W, vGetData |-> <<>>], pto,
                             f.vBlocks, 1, env),
                 LAMBDA r :
            With(f.nodeStaller, LAMBDA staller :
            With(IF r.W.mapNodeState[pto].nBlocksInFlight = 0
                    /\ staller # NoNode
                 THEN IF ~HasState(r.W, staller) THEN Die(r.W, "ub")
                      ELSE [r.W EXCEPT !.mapNodeState[staller].nStallingSince
                                           = env.nNow]
                 ELSE r.W,
                 LAMBDA W1 :
            IF r.vGetData # <<>>
            THEN PushMessage(W1, pto, "getdata", r.vGetData) ELSE W1))))
       ELSE W

SendGetData(W, pto, fFetch, env) ==
    LET state == W.mapNodeState[pto]
    IN IF ~W.vNodes[pto].fClient /\ (fFetch \/ ~env.fIBD)
          /\ state.nBlocksInFlight < MAX_BLOCKS_IN_TRANSIT_PER_PEER
       THEN With(FindNextBlocksToDownload(W, pto,
                     MAX_BLOCKS_IN_TRANSIT_PER_PEER - state.nBlocksInFlight,
                     NoNode),
                 LAMBDA f :
            With(RequestLoop([W |-> f.W, vGetData |-> <<>>], pto,
                             f.vBlocks, 1, env),
                 LAMBDA r :
            With(f.nodeStaller, LAMBDA staller :
            With(IF r.W.mapNodeState[pto].nBlocksInFlight = 0
                    /\ staller # NoNode
                 THEN IF ~HasState(r.W, staller) THEN Die(r.W, "ub")
                      ELSE IF r.W.mapNodeState[staller].nStallingSince = 0
                      THEN [r.W EXCEPT !.mapNodeState[staller].nStallingSince
                                           = env.nNow]
                      ELSE r.W
                 ELSE r.W,
                 LAMBDA W1 :
            IF r.vGetData # <<>>
            THEN PushMessage(W1, pto, "getdata", r.vGetData) ELSE W1))))
       ELSE W

\* A ping step that also starts the headers sync before cs_main is tried.
SendPingStartsSync(W, pto, env) ==
    PushMessage([W EXCEPT !.mapNodeState[pto].fSyncStarted = TRUE,
                          !.nSyncStarted = @ + 1],
                pto, "getheaders", NullHash)

\* "Message: ping"; env.nPingNonce is the random non-zero nonce.
SendPing(W, pto, env) ==
    LET node == W.vNodes[pto]
        pingSend == \/ node.fPingQueued
                    \/ /\ node.nPingNonceSent = 0
                       /\ node.nPingUsecStart + PING_INTERVAL * 1000000
                              < env.nNow
    IN IF pingSend
       THEN PushMessage([W EXCEPT !.vNodes[pto].fPingQueued = FALSE,
                                  !.vNodes[pto].nPingUsecStart = env.nNow,
                                  !.vNodes[pto].nPingNonceSent = env.nPingNonce],
                        pto, "ping", env.nPingNonce)
       ELSE W

\* PeerHasHeader(state, pindex); pindex is never the null pointer here.
PeerHasHeader(state, pindex) ==
    \/ /\ state.pindexBestKnownBlock # NoIndex
       /\ pindex = GetAncestor(state.pindexBestKnownBlock, nHeight(pindex))
    \/ /\ state.pindexBestHeaderSent # NoIndex
       /\ pindex = GetAncestor(state.pindexBestHeaderSent, nHeight(pindex))

\* The loop over vBlockHashesToAnnounce; r carries fRevertToInv, pBestIndex,
\* fFoundStartingHeader, vHeaders (the blocks whose headers are queued) and
\* fAssert, set when a hash has no block index entry.
RECURSIVE AnnounceLoop(_, _, _, _)
AnnounceLoop(r, W, state, vHashes) ==
    IF vHashes = <<>> \/ r.fRevertToInv \/ r.fAssert THEN r
    ELSE
    LET hash == Head(vHashes)
        pindex == IndexOfHash(hash)
    IN IF ~HaveIndex(W, hash) THEN [r EXCEPT !.fAssert = TRUE]
       ELSE IF ChainAt(W, nHeight(pindex)) # pindex
       THEN [r EXCEPT !.fRevertToInv = TRUE]
       ELSE IF r.pBestIndex # NoIndex /\ pprev(pindex) # r.pBestIndex
       THEN [r EXCEPT !.fRevertToInv = TRUE]
       ELSE
       With([r EXCEPT !.pBestIndex = pindex], LAMBDA r1 :
       IF r1.fFoundStartingHeader
       THEN AnnounceLoop([r1 EXCEPT !.vHeaders = Append(@, pindex)],
                         W, state, Tail(vHashes))
       ELSE IF PeerHasHeader(state, pindex)
       THEN AnnounceLoop(r1, W, state, Tail(vHashes))
       ELSE IF pprev(pindex) = NoIndex \/ PeerHasHeader(state, pprev(pindex))
       THEN AnnounceLoop([r1 EXCEPT !.fFoundStartingHeader = TRUE,
                                    !.vHeaders = Append(@, pindex)],
                         W, state, Tail(vHashes))
       ELSE [r1 EXCEPT !.fRevertToInv = TRUE])

\* "Try sending block announcements via headers": a HEADERS message holds
\* the hashes of the blocks whose headers it carries.
SendBlockAnnouncements(W, pto) ==
    LET vHashes == W.vNodes[pto].vBlockHashesToAnnounce
        fPreferHeaders == W.mapNodeState[pto].fPreferHeaders
    IN
    With(ProcessBlockAvailability(W, pto), LAMBDA W1 :
    With(AnnounceLoop([fRevertToInv |-> \/ (~fPreferHeaders /\ Len(vHashes) > 1)
                                        \/ Len(vHashes) > MAX_BLOCKS_TO_ANNOUNCE,
                       pBestIndex |-> NoIndex, fFoundStartingHeader |-> FALSE,
                       vHeaders |-> <<>>, fAssert |-> FALSE],
                      W1, W1.mapNodeState[pto], vHashes),
         LAMBDA r :
    IF r.fAssert THEN Die(W1, "assert")
    ELSE
    With(IF ~r.fRevertToInv /\ r.vHeaders # <<>> /\ fPreferHeaders
         THEN PushMessage([W1 EXCEPT !.mapNodeState[pto].pindexBestHeaderSent
                                         = r.pBestIndex],
                          pto, "headers",
                          [k \in 1..Len(r.vHeaders) |->
                              GetBlockHash(r.vHeaders[k])])
         ELSE W1,
         LAMBDA W2 :
    With(IF (r.fRevertToInv \/ (r.vHeaders # <<>> /\ ~fPreferHeaders))
            /\ vHashes # <<>>
         THEN IF ~HaveIndex(W2, vHashes[Len(vHashes)]) THEN Die(W2, "assert")
              ELSE IF ~PeerHasHeader(W2.mapNodeState[pto],
                                     IndexOfHash(vHashes[Len(vHashes)]))
              THEN [W2 EXCEPT !.vNodes[pto].vInventoryBlockToSend =
                                  Append(@, vHashes[Len(vHashes)])]
              ELSE W2
         ELSE W2,
         LAMBDA W3 :
    [W3 EXCEPT !.vNodes[pto].vBlockHashesToAnnounce = <<>>]))))

\* The loop over vInvTx, taken from the back; r carries the node, vInv and
\* nRelayedTransactions.
RECURSIVE InvTxLoop(_, _, _)
InvTxLoop(r, vInvTx, mempoolNow) ==
    IF vInvTx = <<>> \/ ~(r.nRelayedTransactions < INVENTORY_BROADCAST_MAX)
    THEN r
    ELSE
    LET hash == vInvTx[Len(vInvTx)]
        rest == SubSeq(vInvTx, 1, Len(vInvTx) - 1)
        node1 == [r.node EXCEPT !.setInventoryTxToSend = @ \ {hash}]
    IN IF hash \in node1.filterInventoryKnown \/ hash \notin mempoolNow
       THEN InvTxLoop([r EXCEPT !.node = node1], rest, mempoolNow)
       ELSE InvTxLoop(
                [node |-> [node1 EXCEPT !.filterInventoryKnown = @ \cup {hash}],
                 vInv |-> Append(r.vInv, [type |-> "tx", hash |-> hash]),
                 nRelayedTransactions |-> r.nRelayedTransactions + 1],
                rest, mempoolNow)

\* The inventory step that announces a hash the peer's filter holds.
SendInventoryAgain(W, pto, env) ==
    LET vInv == [i \in 1..Len(InOrder(W.vNodes[pto].setInventoryTxToSend)) |->
                    [type |-> "tx",
                     hash |-> InOrder(W.vNodes[pto].setInventoryTxToSend)[i]]]
    IN IF vInv # <<>>
       THEN PushMessage([W EXCEPT !.vNodes[pto].setInventoryTxToSend = {}],
                        pto, "inv", vInv)
       ELSE W

\* "Message: inventory", the transactions; env.nPoissonDelay is the delay
\* PoissonNextSend draws.
SendInventory(W, pto, env) ==
    LET node == W.vNodes[pto]
        fDue == node.nNextInvSend < env.nNow
        fSendTrickle == node.fWhitelisted \/ fDue
        vInvBlocks == [k \in 1..Len(node.vInventoryBlockToSend) |->
                          [type |-> "block",
                           hash |-> node.vInventoryBlockToSend[k]]]
        node0 == [node EXCEPT !.vInventoryBlockToSend = <<>>]
        node1 == IF fDue
                 THEN [node0 EXCEPT !.nNextInvSend = env.nNow + env.nPoissonDelay]
                 ELSE node0
        node2 == IF fSendTrickle /\ ~node1.fRelayTxes
                 THEN [node1 EXCEPT !.setInventoryTxToSend = {}]
                 ELSE node1
    IN With(IF fSendTrickle
            THEN InvTxLoop([node |-> node2, vInv |-> vInvBlocks,
                            nRelayedTransactions |-> 0],
                           InOrder(node2.setInventoryTxToSend), W.mempool)
            ELSE [node |-> node2, vInv |-> vInvBlocks,
                  nRelayedTransactions |-> 0],
            LAMBDA r :
       With([W EXCEPT !.vNodes[pto] = r.node], LAMBDA W1 :
       IF r.vInv # <<>> THEN PushMessage(W1, pto, "inv", r.vInv) ELSE W1))

\* "Start block sync" that does not look at nSyncStarted.
StartSyncWhileSyncing(W, pto, fFetch, env) ==
    IF ~W.mapNodeState[pto].fSyncStarted /\ ~W.vNodes[pto].fClient
       /\ ~env.fImporting /\ (fFetch \/ env.fBestHeaderRecent)
    THEN PushMessage([W EXCEPT !.mapNodeState[pto].fSyncStarted = TRUE,
                               !.nSyncStarted = @ + 1],
                     pto, "getheaders", NullHash)
    ELSE W

\* "Start block sync"; env.fBestHeaderRecent says that pindexBestHeader is
\* less than a day old, env.fImporting stands for fImporting || fReindex.
StartSync(W, pto, fFetch, env) ==
    IF ~W.mapNodeState[pto].fSyncStarted /\ ~W.vNodes[pto].fClient
       /\ ~env.fImporting
       /\ ((W.nSyncStarted = 0 /\ fFetch) \/ env.fBestHeaderRecent)
    THEN PushMessage([W EXCEPT !.mapNodeState[pto].fSyncStarted = TRUE,
                               !.nSyncStarted = @ + 1],
                     pto, "getheaders", NullHash)
    ELSE W

\* SendMessages(pto, connman, interruptMsgProc): one tick for one peer.
SendMessages(W, pto, env) ==
    IF ~W.vNodes[pto].fSuccessfullyConnected \/ W.vNodes[pto].fDisconnect
    THEN W
    ELSE
    With(SendPing(W, pto, env), LAMBDA W0 :
    IF ~env.fLockMain THEN W0
    ELSE IF SendRejectsBanned(W0, pto) THEN SendRejectsAndCheckIfBanned(W0, pto)
    ELSE
    With(SendRejectsAndCheckIfBanned(W0, pto), LAMBDA W1 :
    LET node == W1.vNodes[pto]
        state == W1.mapNodeState[pto]
        fFetch == state.fPreferredDownload
                     \/ (W1.nPreferredDownload = 0 /\ ~node.fClient /\ ~node.fOneShot)
        nNow == env.nNow
    IN With(StartSync(W1, pto, fFetch, env), LAMBDA Ws :
       With(SendBlockAnnouncements(Ws, pto), LAMBDA Wa :
       IF Wa.fault # "none" THEN Wa
       ELSE
       With(SendInventory(Wa, pto, env), LAMBDA W2 :
       IF state.nStallingSince # 0
          /\ state.nStallingSince < nNow - 1000000 * BLOCK_STALLING_TIMEOUT
       THEN [W2 EXCEPT !.vNodes[pto].fDisconnect = TRUE]
       ELSE IF Len(state.vBlocksInFlight) > 0
               /\ nNow > state.nDownloadingSince
                           + TargetSpacing(env)
                               * (BLOCK_DOWNLOAD_TIMEOUT_BASE
                                    + BLOCK_DOWNLOAD_TIMEOUT_PER_PEER
                                        * (W2.nPeersWithValidatedDownloads
                                             - Bit(state.nBlocksInFlightValidHeaders > 0)))
       THEN [W2 EXCEPT !.vNodes[pto].fDisconnect = TRUE]
       ELSE SendGetData(W2, pto, fFetch, env))))))

\* ------------------------------------------------------- chain callbacks
\* The ForEachNode body of NewPoWValidBlock, node by node.
RECURSIVE FastAnnounceLoop(_, _, _)
FastAnnounceLoop(W, pindex, nodes) ==
    IF nodes = <<>> THEN W
    ELSE
    LET pnode == Head(nodes)
    IN IF W.vNodes[pnode].fDisconnect
       THEN FastAnnounceLoop(W, pindex, Tail(nodes))
       ELSE
       With(ProcessBlockAvailability(W, pnode), LAMBDA W1 :
       IF ~PeerHasHeader(W1.mapNodeState[pnode], pindex)
          /\ PeerHasHeader(W1.mapNodeState[pnode], pprev(pindex))
       THEN FastAnnounceLoop(
                PushMessage([W1 EXCEPT !.mapNodeState[pnode].pindexBestHeaderSent
                                           = pindex],
                            pnode, "headers", <<GetBlockHash(pindex)>>),
                pindex, Tail(nodes))
       ELSE FastAnnounceLoop(W1, pindex, Tail(nodes)))

\* PeerLogicValidation::NewPoWValidBlock(pindex, pblock)
NewPoWValidBlockOp(W, pindex) ==
    IF nHeight(pindex) <= W.nHighestFastAnnounce THEN W
    ELSE FastAnnounceLoop([W EXCEPT !.nHighestFastAnnounce = nHeight(pindex)],
                          pindex, InOrder(DOMAIN W.vNodes))

\* The hashes UpdatedBlockTip collects, the new tip first.
RECURSIVE TipHashes(_, _, _)
TipHashes(pindexToAnnounce, pindexFork, vHashes) ==
    IF pindexToAnnounce = pindexFork
       \/ Len(vHashes) = MAX_BLOCKS_TO_ANNOUNCE
    THEN vHashes
    ELSE TipHashes(pprev(pindexToAnnounce), pindexFork,
                   Append(vHashes, GetBlockHash(pindexToAnnounce)))

Reverse(s) == [k \in 1..Len(s) |-> s[Len(s) + 1 - k]]

\* PeerLogicValidation::UpdatedBlockTip(pindexNew, pindexFork,
\* fInitialDownload); pindexFork is an ancestor of pindexNew or NULL.
UpdatedBlockTipOp(W, pindexNew, pindexFork, fInitialDownload) ==
    IF fInitialDownload THEN W
    ELSE
    LET vHashes == TipHashes(pindexNew, pindexFork, <<>>)
    IN [W EXCEPT !.vNodes =
          [n \in DOMAIN @ |->
              IF nHeight(pindexNew) >
                     (IF @[n].nStartingHeight # -1
                      THEN @[n].nStartingHeight - 2000 ELSE 0)
              THEN [@[n] EXCEPT !.vBlockHashesToAnnounce = @ \o Reverse(vHashes)]
              ELSE @[n]]]

\* ------------------------------------------------------------------ steps
Init ==
    /\ vNodes = <<>>
    /\ mapNodeState = <<>>
    /\ mapBlocksInFlight = <<>>
    /\ mapBlockSource = <<>>
    /\ mapOrphanTransactions = <<>>
    /\ mapOrphanTransactionsByPrev = <<>>
    /\ nPreferredDownload = 0
    /\ nPeersWithValidatedDownloads = 0
    /\ nSyncStarted = 0
    /\ mapBlockIndex = {0}
    /\ setHaveData = {0}
    /\ pindexTip = 0
    /\ setBanned = {}
    /\ mempool = {}
    /\ recentRejects = {}
    /\ hashRecentRejectsChainTip = NullHash
    /\ fUpdateConnectionTime = FALSE
    /\ inMisbehaving = <<>>
    /\ locks = <<>>
    /\ nTimeMicros = 1000000
    /\ nHighestFastAnnounce = 0
    /\ sent = <<>>
    /\ fault = "none"

\* The score is capped so that the state space is finite.
ScoreBounded(W) ==
    \A n \in DOMAIN W.mapNodeState : W.mapNodeState[n].nMisbehavior <= MaxScore

Step(W) == fault = "none" /\ ScoreBounded(W) /\ Commit(W)

\* sent shows what the step pushed when the step is observed (env.fObserve),
\* and nothing otherwise.  The transaction inventory of the peers (what each
\* is known to have and what is queued for it) is kept when env.fInventory;
\* the specifications in which no tick announces transactions never read it
\* and leave it out of the state.
Observed(W, env) ==
    With(IF env.fObserve THEN W ELSE [W EXCEPT !.sent = <<>>], LAMBDA W1 :
    IF env.fInventory THEN W1
    ELSE [W1 EXCEPT !.vNodes =
             [n \in DOMAIN @ |->
                 [@[n] EXCEPT !.setInventoryTxToSend = {},
                              !.filterInventoryKnown = {}]]])

InitializeNode(nodeid, cfg) ==
    /\ nodeid \notin DOMAIN vNodes
    /\ Step(InitializeNodeOp(World, nodeid, cfg))

FinalizeNode(nodeid) ==
    /\ nodeid \in DOMAIN vNodes
    /\ Step(FinalizeNodeOp(World, nodeid))

Receive(pfrom, msg, env) ==
    /\ pfrom \in DOMAIN vNodes
    /\ Step(Observed(ProcessMessages(World, pfrom, msg, env), env))

Tick(pto, env) ==
    /\ pto \in DOMAIN vNodes
    /\ Step(Observed(SendMessages(World, pto, env), env))

\* ------------------------------------------------------------ input sets
PlainCfg == [fInbound |-> FALSE, fWhitelisted |-> FALSE, fAddnode |-> FALSE,
             fLocalAddr |-> FALSE, fOneShot |-> FALSE, fFeeler |-> FALSE]

QuietEnv == [nNow |-> 1000000, fCanDirectFetch |-> TRUE, fIBD |-> FALSE,
             fImporting |-> FALSE, fBestHeaderRecent |-> FALSE,
             fServiceUpgrade |-> FALSE, fLockMain |-> TRUE,
             nAddressCount |-> 0, nInterruptAt |-> 0, fDropMessage |-> FALSE,
             fNodeBloom |-> TRUE, fEnforceNodeBloom |-> FALSE,
             fRelayTxes |-> TRUE, fWhitelistRelay |-> TRUE,
             fWhitelistForceRelay |-> TRUE,
             nMaxOrphanTx |-> DEFAULT_MAX_ORPHAN_TRANSACTIONS,
             vRandHash |-> <<1>>,
             fPauseSend |-> FALSE, mapRelay |-> {}, stxPool |-> {},
             fOutboundTargetReached |-> FALSE, fHistorical |-> FALSE,
             fFilterLoaded |-> FALSE, setMatched |-> {},
             fHashContinue |-> FALSE,
             nPingNonce |-> 1, nTimeReceived |-> 1000000,
             nPoissonDelay |-> 5000000,
             fInventory |-> FALSE, fObserve |-> FALSE]

GoodVersion == [nVersion |-> PROTOCOL_VERSION, fServicesOk |-> TRUE,
                fNodeNetwork |-> TRUE, fSelfNonce |-> FALSE, fRelay |-> TRUE,
                nStartingHeight |-> -1]

Msg(cmd, arg) == [cmd |-> cmd, wire |-> "ok", arg |-> arg]

BlockInvs == {<<h>> : h \in OfferedHashes}
                 \cup {<<gh[1], gh[2]>> :
                          gh \in {x \in OfferedHashes \X OfferedHashes : x[1] # x[2]}}
InvArg(vInv) == [nSize |-> Len(vInv), vInv |-> [i \in 1..Len(vInv) |->
                    [type |-> "block", hash |-> vInv[i]]]]

HeaderOf(pindex, nDoS) ==
    [hash |-> GetBlockHash(pindex), hashPrevBlock |-> GetBlockHash(pprev(pindex)),
     nDoS |-> nDoS]
HeaderRuns == {[k \in 1..(b - a + 1) |-> HeaderOf(a + k - 1, 0)] :
                  a \in 1..NumBlocks, b \in 1..NumBlocks} \ {<<>>}
HeadersArg(headers) == [nCount |-> Len(headers), headers |-> headers]

ValidBlock(pindex) == [hash |-> GetBlockHash(pindex), fValid |-> TRUE,
                       nDoS |-> 0, chRejectCode |-> 0]

\* ------------------------------------------------- download specification
\* Outbound peers complete the handshake and then announce, offer and deliver
\* blocks while the tick requests more; peers come and go at any time.
FetchEnvs == {[QuietEnv EXCEPT !.fCanDirectFetch = d] : d \in BOOLEAN}

Connect == \E p \in Peers : InitializeNode(p, PlainCfg)
Disconnect == \E p \in Peers : FinalizeNode(p)
RecvVersion ==
    \E p \in Peers :
        /\ p \in DOMAIN vNodes /\ vNodes[p].nVersion = 0
        /\ Receive(p, Msg("version", GoodVersion), QuietEnv)
RecvVerack ==
    \E p \in Peers :
        /\ p \in DOMAIN vNodes /\ vNodes[p].nVersion # 0
        /\ Receive(p, Msg("verack", 0), QuietEnv)
RecvInv ==
    \E p \in Peers, env \in FetchEnvs, vInv \in BlockInvs :
        /\ p \in DOMAIN vNodes /\ vNodes[p].fSuccessfullyConnected
        /\ Receive(p, Msg("inv", InvArg(vInv)), env)
RecvHeaders ==
    \E p \in Peers, env \in FetchEnvs, headers \in HeaderRuns :
        /\ p \in DOMAIN vNodes /\ vNodes[p].fSuccessfullyConnected
        /\ headers[1].hashPrevBlock \in {GetBlockHash(i) : i \in mapBlockIndex}
        /\ Receive(p, Msg("headers", HeadersArg(headers)), env)
RecvBlock ==
    \E p \in Peers, pindex \in 1..NumBlocks :
        /\ p \in DOMAIN vNodes /\ vNodes[p].fSuccessfullyConnected
        /\ pprev(pindex) \in mapBlockIndex
        /\ Receive(p, Msg("block", ValidBlock(pindex)), QuietEnv)
SendTick == \E p \in Peers : Tick(p, QuietEnv)

Next ==
    \/ Connect \/ Disconnect \/ RecvVersion \/ RecvVerack
    \/ RecvInv \/ RecvHeaders \/ RecvBlock \/ SendTick

Spec == Init /\ [][Next]_vars

\* ----------------------------------------------------- in-flight blocks
InFlightAt(n, hash) ==
    {i \in 1..Len(mapNodeState[n].vBlocksInFlight) :
        mapNodeState[n].vBlocksInFlight[i].hash = hash}

SumInFlight(S) ==
    LET RECURSIVE Sum(_)
        Sum(T) == IF T = {} THEN 0
                  ELSE LET n == CHOOSE m \in T : TRUE
                       IN mapNodeState[n].nBlocksInFlight + Sum(T \ {n})
    IN Sum(S)

\* C1: every hash in mapBlocksInFlight is recorded for one registered peer;
\* that peer's vBlocksInFlight holds exactly one entry for the hash, the entry
\* the map's iterator points to, and no other peer's list holds the hash.
C1_InFlightIndexed ==
    \A hash \in DOMAIN mapBlocksInFlight :
        LET e == mapBlocksInFlight[hash]
        IN /\ e.nodeid \in DOMAIN mapNodeState
           /\ \A n \in DOMAIN mapNodeState :
                 IF n = e.nodeid
                 THEN /\ Cardinality(InFlightAt(n, hash)) = 1
                      /\ \A i \in InFlightAt(n, hash) :
                            mapNodeState[n].vBlocksInFlight[i].node = e.it
                 ELSE InFlightAt(n, hash) = {}

\* Two hashes are in flight, from two different peers.
C1_Witness ==
    \E g, h \in DOMAIN mapBlocksInFlight :
        /\ g # h
        /\ mapBlocksInFlight[g].nodeid # mapBlocksInFlight[h].nodeid

\* C2: the peers' nBlocksInFlight add up to the size of mapBlocksInFlight.
C2_InFlightCount ==
    SumInFlight(DOMAIN mapNodeState) = Cardinality(DOMAIN mapBlocksInFlight)

\* Both peers have a block in flight.
C2_Witness ==
    /\ Cardinality(DOMAIN mapBlocksInFlight) = NumPeers
    /\ \A n \in Peers : n \in DOMAIN mapNodeState
                           /\ mapNodeState[n].nBlocksInFlight > 0

C5_LastPeerGone ==
    /\ fault # "assert"
    /\ DOMAIN mapNodeState = {} =>
          /\ DOMAIN mapBlocksInFlight = {}
          /\ nPreferredDownload = 0
          /\ nPeersWithValidatedDownloads = 0

\* FinalizeNode has just removed the last peer, one that had connected; a
\* block a peer had delivered is on disk.
C5_Witness ==
    /\ DOMAIN mapNodeState = {}
    /\ fUpdateConnectionTime
    /\ setHaveData # {0}

\* C6: no peer has more than MAX_BLOCKS_IN_TRANSIT_PER_PEER blocks in flight.
C6_InFlightCapped ==
    \A n \in DOMAIN mapNodeState :
        /\ mapNodeState[n].nBlocksInFlight <= MAX_BLOCKS_IN_TRANSIT_PER_PEER
        /\ Len(mapNodeState[n].vBlocksInFlight) <= MAX_BLOCKS_IN_TRANSIT_PER_PEER

\* A peer is at the limit while a block it announced is still to be fetched.
C6_Witness ==
    \E n \in DOMAIN mapNodeState :
        /\ mapNodeState[n].nBlocksInFlight = MAX_BLOCKS_IN_TRANSIT_PER_PEER
        /\ mapNodeState[n].pindexBestKnownBlock # NoIndex
        /\ ~HaveData(World, mapNodeState[n].pindexBestKnownBlock)
        /\ GetBlockHash(mapNodeState[n].pindexBestKnownBlock)
               \notin DOMAIN mapBlocksInFlight

\* ------------------------------------------------ handshake specification
\* Peers of every kind connect and go through VERSION and VERACK, or send
\* something else first; each step's pushes are observed in sent.
ShakeCfgs == {PlainCfg,
              [PlainCfg EXCEPT !.fInbound = TRUE],
              [PlainCfg EXCEPT !.fInbound = TRUE, !.fWhitelisted = TRUE],
              [PlainCfg EXCEPT !.fOneShot = TRUE],
              [PlainCfg EXCEPT !.fFeeler = TRUE]}

VersionArgs == {GoodVersion,
                [GoodVersion EXCEPT !.fNodeNetwork = FALSE],
                [GoodVersion EXCEPT !.nVersion = MIN_PROTO_VERSION],
                [GoodVersion EXCEPT !.nVersion = MIN_PROTO_VERSION - 1]}

ShakeEnvs == {[QuietEnv EXCEPT !.fObserve = TRUE, !.nAddressCount = n,
                               !.fDropMessage = d, !.fNodeBloom = b,
                               !.fEnforceNodeBloom = e] :
                 n \in {0, 1000}, d \in BOOLEAN, b \in BOOLEAN, e \in BOOLEAN}

\* Every command but VERSION that the peer may put on the wire.
NonVersionCommands ==
    {"verack", "addr", "inv", "getdata", "getblocks", "getheaders", "tx",
     "headers", "block", "getaddr", "mempool", "ping", "pong", "sendheaders",
     "filterload", "filteradd", "filterclear", "reject", "stx"}
EarlyCommands == {"verack", "ping", "filterload"}

ObservedEnv == [QuietEnv EXCEPT !.fObserve = TRUE]
AddrEnvs == {[ObservedEnv EXCEPT !.nAddressCount = n] : n \in {0, 1000}}
EarlyEnvs == {ObservedEnv,
              [ObservedEnv EXCEPT !.fDropMessage = TRUE],
              [ObservedEnv EXCEPT !.fNodeBloom = FALSE],
              [ObservedEnv EXCEPT !.fNodeBloom = FALSE,
                                  !.fEnforceNodeBloom = TRUE]}

ShakeConnect == \E p \in Peers, cfg \in ShakeCfgs : InitializeNode(p, cfg)
ShakeDisconnect == \E p \in Peers : FinalizeNode(p)
ShakeVersion ==
    \E p \in Peers, arg \in VersionArgs, env \in AddrEnvs :
        /\ p \in DOMAIN vNodes /\ vNodes[p].nVersion = 0
        /\ Receive(p, Msg("version", arg), env)
ShakeVerack ==
    \E p \in Peers :
        /\ p \in DOMAIN vNodes /\ vNodes[p].nVersion # 0
        /\ ~vNodes[p].fSuccessfullyConnected
        /\ Receive(p, Msg("verack", 0), ObservedEnv)
ShakeEarly ==
    \E p \in Peers, cmd \in EarlyCommands, env \in EarlyEnvs :
        /\ p \in DOMAIN vNodes /\ vNodes[p].nVersion = 0
        /\ mapNodeState[p].nMisbehavior < MaxEarly
        /\ Receive(p, Msg(cmd, 0), env)

ShakeNext ==
    \/ ShakeConnect \/ ShakeDisconnect \/ ShakeVersion \/ ShakeVerack
    \/ ShakeEarly

HandshakeSpec == Init /\ [][ShakeNext]_vars

\* ------------------------------------------------------ ban specification
\* Plain, whitelisted, addnoded and local peers collect penalties of 20 and
\* 100; a step may be interrupted before the ban is actioned, and the tick or
\* the next message actions it.
BanCfgs == {PlainCfg,
            [PlainCfg EXCEPT !.fWhitelisted = TRUE],
            [PlainCfg EXCEPT !.fAddnode = TRUE],
            [PlainCfg EXCEPT !.fLocalAddr = TRUE]}

BanEnvs == {[QuietEnv EXCEPT !.fObserve = TRUE, !.nInterruptAt = i,
                             !.fNodeBloom = FALSE] : i \in {0, 1}}

OversizedInv == [nSize |-> MAX_INV_SZ + 1, vInv |-> <<>>]

BanConnect ==
    \E p \in Peers, cfg \in BanCfgs :
        /\ p \notin setBanned
        /\ InitializeNode(p, cfg)
BanDisconnect == \E p \in Peers : FinalizeNode(p)
BanVersion ==
    \E p \in Peers :
        /\ p \in DOMAIN vNodes /\ vNodes[p].nVersion = 0
        /\ Receive(p, Msg("version", GoodVersion), QuietEnv)
BanVerack ==
    \E p \in Peers :
        /\ p \in DOMAIN vNodes /\ vNodes[p].nVersion # 0
        /\ ~vNodes[p].fSuccessfullyConnected
        /\ Receive(p, Msg("verack", 0), QuietEnv)
BanOversizedInv ==
    \E p \in Peers, env \in BanEnvs :
        /\ p \in DOMAIN vNodes /\ vNodes[p].nVersion # 0
        /\ Receive(p, Msg("inv", OversizedInv), env)
BanFilter ==
    \E p \in Peers, env \in BanEnvs :
        /\ p \in DOMAIN vNodes /\ vNodes[p].nVersion # 0
        /\ Receive(p, Msg("filterclear", 0), env)
BanTick == \E p \in Peers : Tick(p, ObservedEnv)

BanNext ==
    \/ BanConnect \/ BanDisconnect \/ BanVersion \/ BanVerack
    \/ BanOversizedInv \/ BanFilter \/ BanTick

BanSpec == Init /\ [][BanNext]_vars

\* ------------------------------------------------------ preferred peers
\* C4: nPreferredDownload is the number of registered peers whose
\* fPreferredDownload flag is set.
C4_PreferredPeers ==
    nPreferredDownload =
        Cardinality({n \in DOMAIN mapNodeState :
                        mapNodeState[n].fPreferredDownload})

\* Two peers have sent their VERSION; one of them is preferred.
C4_Witness ==
    /\ nPreferredDownload = 1
    /\ Cardinality({n \in DOMAIN vNodes : vNodes[n].nVersion # 0}) = 2

\* ------------------------------------------------------------ penalties
HowMuch == {0, 1, 19, 20, 21, 100}

Crosses(before, howmuch) == before < banscore /\ before + howmuch >= banscore

\* C7: Misbehaving adds howmuch to the peer's score and raises fShouldBan
\* exactly when the score was below banscore before the call and is at or
\* above it after; nothing else changes, and an unknown peer changes nothing.
\* A pending fShouldBan is only ever seen on a score at or above banscore.
C7_Misbehaving ==
    /\ \A n \in DOMAIN mapNodeState :
          mapNodeState[n].fShouldBan => mapNodeState[n].nMisbehavior >= banscore
    /\ \A n \in Peers, howmuch \in HowMuch :
          Misbehaving(World, n, howmuch) =
              IF n \in DOMAIN mapNodeState
              THEN [World EXCEPT
                      !.mapNodeState[n].nMisbehavior = @ + howmuch,
                      !.mapNodeState[n].fShouldBan =
                          @ \/ Crosses(mapNodeState[n].nMisbehavior, howmuch)]
              ELSE World

\* A score has landed exactly on banscore and the ban is pending, while
\* another peer is one step below it.
C7_Witness ==
    \E n, m \in DOMAIN mapNodeState :
        /\ mapNodeState[n].nMisbehavior = banscore
        /\ mapNodeState[n].fShouldBan
        /\ mapNodeState[m].nMisbehavior = banscore - 20
        /\ ~mapNodeState[m].fShouldBan

Spared(n) == vNodes[n].fWhitelisted \/ vNodes[n].fAddnode

\* C8 (as the code has it): actioning a pending ban clears fShouldBan; a
\* whitelisted or addnoded peer is neither marked for disconnect nor banned;
\* every other peer is marked for disconnect, and it is banned unless its
\* address is local.  A banned peer that is still registered is marked for
\* disconnect and is none of whitelisted, addnoded, local.
C8_BanActioned ==
    /\ \A n \in DOMAIN vNodes \cap setBanned :
          /\ vNodes[n].fDisconnect
          /\ ~Spared(n) /\ ~vNodes[n].fLocalAddr
    /\ \A n \in DOMAIN mapNodeState :
          mapNodeState[n].fShouldBan =>
              LET R == SendRejectsAndCheckIfBanned(World, n)
              IN /\ ~R.mapNodeState[n].fShouldBan
                 /\ IF Spared(n)
                    THEN R.vNodes = vNodes /\ R.setBanned = setBanned
                    ELSE /\ R.vNodes[n].fDisconnect
                         /\ R.setBanned = IF vNodes[n].fLocalAddr THEN setBanned
                                          ELSE setBanned \cup {n}

\* A local peer's ban has been actioned: it is marked for disconnect and not
\* banned, while a plain peer has been banned.
C8_Witness ==
    \E n, m \in DOMAIN vNodes :
        /\ vNodes[n].fLocalAddr /\ vNodes[n].fDisconnect
        /\ mapNodeState[n].nMisbehavior >= banscore
        /\ ~mapNodeState[n].fShouldBan
        /\ n \notin setBanned
        /\ m \in setBanned

\* C8 as stated: a whitelisted, addnoded or local peer is neither marked for
\* disconnect nor banned when its pending ban is actioned.
C8_AsStated ==
    \A n \in DOMAIN mapNodeState :
        (mapNodeState[n].fShouldBan
             /\ (Spared(n) \/ vNodes[n].fLocalAddr)) =>
            LET R == SendRejectsAndCheckIfBanned(World, n)
            IN R.vNodes[n].fDisconnect = vNodes[n].fDisconnect
                  /\ R.setBanned = setBanned

\* ------------------------------------------------------------ handshake
\* The commands pushed to peer n, in the order of the pushes.
PushedTo(W, n) ==
    LET to == SelectSeq(W.sent, LAMBDA m : m.to = n)
    IN [i \in 1..Len(to) |-> to[i].cmd]

\* The peer answers with VERSION and then VERACK.
Answer(n, arg, env) ==
    ProcessMessages(ProcessMessages(World, n, Msg("version", arg), env),
                    n, Msg("verack", 0), env)

AcceptedVersions == {arg \in VersionArgs : arg.nVersion >= MIN_PROTO_VERSION}

AwaitsVersion(n) ==
    /\ ~vNodes[n].fInbound /\ ~vNodes[n].fFeeler
    /\ vNodes[n].nVersion = 0 /\ ~vNodes[n].fDisconnect

\* C9 (as the code has it): when an outbound peer that is no feeler answers
\* with VERSION and VERACK while fewer than 1000 addresses are known, VERACK
\* and GETADDR are pushed on the VERSION and SENDHEADERS on the VERACK, the
\* latter only to a peer of SENDHEADERS_VERSION or later; fSuccessfullyConnected
\* is then set and the recorded version is the advertised one.
C9_Handshake ==
    \A n \in DOMAIN vNodes, arg \in AcceptedVersions :
        AwaitsVersion(n) =>
            LET R == Answer(n, arg, ObservedEnv)
            IN /\ PushedTo(R, n) =
                      IF arg.nVersion >= SENDHEADERS_VERSION
                      THEN <<"verack", "getaddr", "sendheaders">>
                      ELSE <<"verack", "getaddr">>
               /\ R.vNodes[n].fSuccessfullyConnected
               /\ R.vNodes[n].nVersion = arg.nVersion

\* An outbound peer has completed the handshake: the last step pushed
\* SENDHEADERS to it, GETADDR went out before.
C9_Witness ==
    \E n \in DOMAIN vNodes :
        /\ ~vNodes[n].fInbound /\ vNodes[n].fSuccessfullyConnected
        /\ vNodes[n].fGetAddr
        /\ vNodes[n].nVersion = PROTOCOL_VERSION
        /\ PushedTo(World, n) = <<>>
        /\ sent = <<[to |-> n, cmd |-> "sendheaders", arg |-> 0]>>

\* C9 as stated: the pushes are VERACK, then SENDHEADERS, then GETADDR.
C9_AsStated ==
    \A n \in DOMAIN vNodes :
        AwaitsVersion(n) =>
            LET R == Answer(n, GoodVersion, ObservedEnv)
            IN /\ PushedTo(R, n) = <<"verack", "sendheaders", "getaddr">>
               /\ R.vNodes[n].fSuccessfullyConnected
               /\ R.vNodes[n].nVersion = GoodVersion.nVersion

\* C10 (as the code has it): a message other than VERSION from a peer whose
\* recorded version is 0 is dropped when the drop test fires; a filter command
\* marks the peer for disconnect, without penalty, when NODE_BLOOM is not
\* offered and bloom enforcement is on; every other such message costs the
\* peer exactly 1 (raising fShouldBan if that reaches banscore), changes
\* nothing else and pushes nothing.
C10_BeforeVersion ==
    \A n \in DOMAIN vNodes, cmd \in NonVersionCommands, env \in ShakeEnvs :
        vNodes[n].nVersion = 0 =>
            ProcessMessage(World, n, Msg(cmd, 0), env) =
                IF env.fDropMessage THEN World
                ELSE IF ~env.fNodeBloom /\ cmd \in FilterCommands
                        /\ env.fEnforceNodeBloom
                THEN [World EXCEPT !.vNodes[n].fDisconnect = TRUE]
                ELSE [World EXCEPT
                        !.mapNodeState[n].nMisbehavior = @ + 1,
                        !.mapNodeState[n].fShouldBan =
                            @ \/ Crosses(mapNodeState[n].nMisbehavior, 1)]

\* A peer that has sent no VERSION has been penalised, and the step pushed
\* nothing.
C10_Witness ==
    \E n \in DOMAIN vNodes :
        /\ vNodes[n].nVersion = 0
        /\ mapNodeState[n].nMisbehavior = 1
        /\ ~vNodes[n].fDisconnect
        /\ sent = <<>>

\* C10 as stated: every such message costs the peer exactly 1.
C10_AsStated ==
    \A n \in DOMAIN vNodes, cmd \in NonVersionCommands, env \in ShakeEnvs :
        vNodes[n].nVersion = 0 =>
            ProcessMessage(World, n, Msg(cmd, 0), env) =
                Misbehaving(World, n, 1)

\* --------------------------------------------- transaction specification
\* Outbound peers send their VERSION and then transactions in any order,
\* announce and deliver the block; the eviction's random hash is any txid
\* or one past the last.
\* What a TX message reads besides the state: the -maxorphantx argument
\* and the value GetRandHash returns when an orphan is evicted.
TxEnvs == {[QuietEnv EXCEPT !.vRandHash = <<h>>, !.nMaxOrphanTx = c] :
              h \in 1..(NumTx + 1), c \in 0..DEFAULT_MAX_ORPHAN_TRANSACTIONS}

TxConnect == \E p \in Peers : InitializeNode(p, PlainCfg)
TxDisconnect == \E p \in Peers : FinalizeNode(p)
TxVersion ==
    \E p \in Peers :
        /\ p \in DOMAIN vNodes /\ vNodes[p].nVersion = 0
        /\ Receive(p, Msg("version", GoodVersion), QuietEnv)
TxRecvTx ==
    \E p \in Peers, hash \in TxHashes, env \in TxEnvs :
        /\ p \in DOMAIN vNodes /\ vNodes[p].nVersion # 0
        /\ Receive(p, Msg("tx", TxOf(hash)), env)
TxRecvBlock ==
    \E p \in Peers, pindex \in 1..NumBlocks :
        /\ p \in DOMAIN vNodes /\ vNodes[p].nVersion # 0
        /\ pprev(pindex) \in setHaveData
        /\ Receive(p, Msg("block", ValidBlock(pindex)), QuietEnv)

TxNext ==
    \/ TxConnect \/ TxDisconnect \/ TxVersion \/ TxRecvTx \/ TxRecvBlock

TxSpec == Init /\ [][TxNext]_vars

\* ------------------------------------------------- getdata specification
\* Peers ask for transactions, service transactions and blocks, up to
\* MaxGetData entries a message; the send buffer may be full and the
\* interrupt flag may be raised while the queue is served.
GetDataInvs ==
    {[type |-> "tx", hash |-> h] : h \in 1..2}
        \cup {[type |-> "stx", hash |-> 1]}
        \cup {[type |-> t, hash |-> GetBlockHash(NumBlocks)] :
                 t \in BlockInvTypes}
GetDataSeqs == UNION {[1..n -> GetDataInvs] : n \in 1..MaxGetData}
GetDataArg(vInv) == [nSize |-> Len(vInv), vInv |-> vInv]
GetDataEnvs ==
    {[QuietEnv EXCEPT !.mapRelay = {1}, !.fPauseSend = ps, !.nInterruptAt = i] :
        ps \in BOOLEAN, i \in 0..MaxGetData}
ServeEnvs ==
    {[e EXCEPT !.fFilterLoaded = fl, !.setMatched = {1}, !.fHashContinue = hc,
               !.fOutboundTargetReached = tr, !.stxPool = sp] :
        e \in GetDataEnvs, fl \in BOOLEAN, hc \in BOOLEAN, tr \in BOOLEAN,
        sp \in {{}, {1}}}

GdRecvGetData ==
    \E p \in Peers, vInv \in GetDataSeqs, env \in GetDataEnvs :
        /\ p \in DOMAIN vNodes /\ vNodes[p].nVersion # 0
        /\ Receive(p, Msg("getdata", GetDataArg(vInv)), env)

GetDataNext ==
    \/ TxConnect \/ TxDisconnect \/ TxVersion \/ GdRecvGetData \/ TxRecvBlock

GetDataSpec == Init /\ [][GetDataNext]_vars

\* ---------------------------------------------------- race specification
\* Workers handle messages of different peers in parallel.  A handler that
\* takes cs_main for its body is one step.  The NODE_BLOOM pre-check calls
\* Misbehaving without cs_main: the worker reads the peer's score in one
\* step and writes it in a later one, and handlers of other peers may run
\* in between.  A peer with a message in a worker's hands is not finalized
\* and has no other message handled.
Busy == DOMAIN inMisbehaving

RaceDisconnect == \E p \in Peers \ Busy : FinalizeNode(p)
RaceRecvTx ==
    \E p \in Peers \ Busy, hash \in {1, 3} :
        /\ p \in DOMAIN vNodes /\ vNodes[p].nVersion # 0
        /\ Receive(p, Msg("tx", TxOf(hash)), QuietEnv)
RaceFilterEnter ==
    \E p \in DOMAIN vNodes \ Busy :
        /\ ~vNodes[p].fDisconnect
        /\ vNodes[p].nVersion >= NO_BLOOM_VERSION
        /\ Step([World EXCEPT
                   !.inMisbehaving =
                       (p :> [howmuch |-> 100,
                              nMisbehavior |-> mapNodeState[p].nMisbehavior])
                           @@ @])
RaceFilterStore ==
    \E p \in Busy :
        Step(Observed(
            SendRejectsAndCheckIfBanned(
                MisbehavingStore(
                    [World EXCEPT !.inMisbehaving = Restrict(@, DOMAIN @ \ {p})],
                    p, inMisbehaving[p].howmuch, inMisbehaving[p].nMisbehavior),
                p),
            QuietEnv))

RaceNext ==
    \/ TxConnect \/ RaceDisconnect \/ TxVersion \/ RaceRecvTx
    \/ RaceFilterEnter \/ RaceFilterStore

RaceSpec == Init /\ [][RaceNext]_vars

\* ---------------------------------------------------- tick specification
\* The clock advances between steps.  Peers complete the handshake, announce
\* the chain by headers and deliver blocks; the tick, which may find cs_main
\* taken, requests blocks and marks the peers that stall or time out for
\* disconnection.
TimePoints ==
    {1000000 + 1000000 * BLOCK_STALLING_TIMEOUT + 1,
     1000000 + nTargetSpacing * BLOCK_DOWNLOAD_TIMEOUT_BASE + 1}

NowEnv == [QuietEnv EXCEPT !.nNow = nTimeMicros, !.nTimeReceived = nTimeMicros,
                           !.fCanDirectFetch = FALSE]
TickEnvs == {[NowEnv EXCEPT !.fLockMain = b] : b \in BOOLEAN}
ChainHeaders == {[k \in 1..n |-> HeaderOf(k, 0)] : n \in 1..ChainLen}

TimeAdvance ==
    \E t \in TimePoints :
        /\ nTimeMicros < t
        /\ Step([World EXCEPT !.nTimeMicros = t])
TimeConnect == \E p \in Peers : InitializeNode(p, PlainCfg)
TimeVersion ==
    \E p \in Peers :
        /\ p \in DOMAIN vNodes /\ vNodes[p].nVersion = 0
        /\ Receive(p, Msg("version", GoodVersion), NowEnv)
TimeVerack ==
    \E p \in Peers :
        /\ p \in DOMAIN vNodes /\ vNodes[p].nVersion # 0
        /\ ~vNodes[p].fSuccessfullyConnected
        /\ Receive(p, Msg("verack", 0), NowEnv)
TimeHeaders ==
    \E p \in Peers, headers \in ChainHeaders, d \in BOOLEAN :
        /\ p \in DOMAIN vNodes /\ vNodes[p].fSuccessfullyConnected
        /\ Receive(p, Msg("headers", HeadersArg(headers)),
                   [NowEnv EXCEPT !.fCanDirectFetch = d])
TimeBlock ==
    \E p \in Peers, pindex \in 1..ChainLen :
        /\ p \in DOMAIN vNodes /\ vNodes[p].fSuccessfullyConnected
        /\ GetBlockHash(pindex) \in DOMAIN mapBlocksInFlight
        /\ pprev(pindex) \in setHaveData
        /\ Receive(p, Msg("block", ValidBlock(pindex)), NowEnv)
TimeTick == \E p \in Peers, env \in TickEnvs : Tick(p, env)

TimeNext ==
    \/ TimeAdvance \/ TimeConnect \/ TimeVersion
    \/ TimeVerack \/ TimeHeaders \/ TimeBlock \/ TimeTick

TimeSpec == Init /\ [][TimeNext]_vars

\* ---------------------------------------------------- ping specification
\* Peers complete the handshake; the tick pings them when the interval has
\* passed, and they answer with pongs of any nonce, at any time.
PingTimePoints ==
    {1000000 * PING_INTERVAL + 1, 1000000 * PING_INTERVAL + 2,
     2 * (1000000 * PING_INTERVAL + 1)}
Nonces == 1..2
PingEnvs == {[e EXCEPT !.nPingNonce = n] : e \in TickEnvs, n \in Nonces}
PongArgs == {[nonce |-> n, fShort |-> b] : n \in 0..2, b \in BOOLEAN}

PingAdvance ==
    \E t \in PingTimePoints :
        /\ nTimeMicros < t
        /\ Step([World EXCEPT !.nTimeMicros = t])
PingTick == \E p \in Peers, env \in PingEnvs : Tick(p, env)
PingRecvPing ==
    \E p \in Peers, n \in Nonces :
        /\ p \in DOMAIN vNodes /\ vNodes[p].fSuccessfullyConnected
        /\ Receive(p, Msg("ping", [nonce |-> n]), NowEnv)
PingRecvPong ==
    \E p \in Peers, arg \in PongArgs :
        /\ p \in DOMAIN vNodes /\ vNodes[p].fSuccessfullyConnected
        /\ Receive(p, Msg("pong", arg), NowEnv)

PingNext ==
    \/ PingAdvance \/ TimeConnect \/ TxDisconnect \/ TimeVersion
    \/ TimeVerack \/ PingTick \/ PingRecvPing \/ PingRecvPong

PingSpec == Init /\ [][PingNext]_vars

\* ---------------------------------------------------- lock specification
\* The mutex operations of the code paths that take a peer-local mutex or
\* cs_main, in program order.  LOCK is scoped: the release is the end of
\* the enclosing block.  The peer-local mutexes are those of the peer the
\* worker is handling.
PeerLocalLocks == {"cs_filter", "cs_inventory", "cs_vProcessMsg", "cs_SubVer"}

Acquire(lock) == [op |-> "lock", lock |-> lock]
TryAcquire(lock) == [op |-> "try", lock |-> lock]
Release(lock) == [op |-> "unlock", lock |-> lock]

\* ProcessGetData serving a filtered block with the locks in the other
\* order.
LockProgramFilterFirst(path) ==
    <<Acquire("cs_filter"), Acquire("cs_main"),
      Release("cs_main"), Release("cs_filter")>>

LockProgram(path) ==
    IF path = "ProcessGetData"
    THEN <<Acquire("cs_main"), Acquire("cs_filter"),
           Release("cs_filter"), Release("cs_main")>>
    ELSE IF path = "SendMessages"
    THEN <<TryAcquire("cs_main"),
           Acquire("cs_inventory"), Release("cs_inventory"),
           Acquire("cs_inventory"),
           Acquire("cs_filter"), Release("cs_filter"),
           Acquire("cs_filter"), Release("cs_filter"),
           Release("cs_inventory"), Release("cs_main")>>
    ELSE IF path = "version"
    THEN <<Acquire("cs_SubVer"), Release("cs_SubVer"),
           Acquire("cs_filter"), Release("cs_filter"),
           Acquire("cs_main"), Release("cs_main")>>
    ELSE IF path = "filteradd"
    THEN <<Acquire("cs_filter"), Release("cs_filter")>>
    ELSE \* "ProcessMessages": take one message, handle it, check the ban
         <<Acquire("cs_vProcessMsg"), Release("cs_vProcessMsg"),
           Acquire("cs_main"), Release("cs_main")>>

LockPaths ==
    {"ProcessGetData", "SendMessages", "version", "filteradd",
     "ProcessMessages"}

HeldBy(p) == IF p \in DOMAIN locks THEN SeqToSet(locks[p].held) ELSE {}
MainFree(p) == \A q \in Peers \ {p} : "cs_main" \notin HeldBy(q)
NextOp(p) == LockProgram(locks[p].path)[locks[p].pc]

LockEnter ==
    \E p \in Peers \ DOMAIN locks, path \in LockPaths :
        Step([World EXCEPT
                !.locks = (p :> [path |-> path, pc |-> 1, held |-> <<>>])
                              @@ @])
LockAcquire ==
    \E p \in DOMAIN locks :
        /\ locks[p].pc <= Len(LockProgram(locks[p].path))
        /\ NextOp(p).op \in {"lock", "try"}
        /\ NextOp(p).lock = "cs_main" => MainFree(p)
        /\ Step([World EXCEPT
                   !.locks[p].pc = @ + 1,
                   !.locks[p].held = Append(@, NextOp(p).lock)])
\* TRY_LOCK(cs_main, lockMain); if (!lockMain) return true;
LockTryFails ==
    \E p \in DOMAIN locks :
        /\ locks[p].pc <= Len(LockProgram(locks[p].path))
        /\ NextOp(p).op = "try"
        /\ ~MainFree(p)
        /\ Step([World EXCEPT !.locks = Restrict(@, DOMAIN @ \ {p})])
LockRelease ==
    \E p \in DOMAIN locks :
        /\ locks[p].pc <= Len(LockProgram(locks[p].path))
        /\ NextOp(p).op = "unlock"
        /\ Step([World EXCEPT
                   !.locks[p].pc = @ + 1,
                   !.locks[p].held =
                       SelectSeq(@, LAMBDA l : l # NextOp(p).lock)])
LockLeave ==
    \E p \in DOMAIN locks :
        /\ locks[p].pc > Len(LockProgram(locks[p].path))
        /\ Step([World EXCEPT !.locks = Restrict(@, DOMAIN @ \ {p})])

LockNext ==
    LockEnter \/ LockAcquire \/ LockTryFails \/ LockRelease \/ LockLeave

LockSpec == Init /\ [][LockNext]_vars

\* ------------------------------------------------- cleanup specification
\* Peers announce blocks that are fetched from them, deliver blocks (the
\* genesis block, which is already stored, included) and send transactions
\* whose parents never arrive; any peer may then leave.
OrphanHashes == {hash \in TxHashes : FundingTx \notin TxOf(hash).vin}

CleanRecvInv ==
    \E p \in Peers, h \in OfferedBlockHashes :
        /\ p \in DOMAIN vNodes /\ vNodes[p].nVersion # 0
        /\ Receive(p, Msg("inv", InvArg(<<h>>)), QuietEnv)
CleanRecvBlock ==
    \E p \in Peers, pindex \in 0..NumBlocks :
        /\ p \in DOMAIN vNodes /\ vNodes[p].nVersion # 0
        /\ pindex = 0 \/ pprev(pindex) \in setHaveData
        /\ Receive(p, Msg("block", ValidBlock(pindex)), QuietEnv)
CleanRecvOrphan ==
    \E p \in Peers, hash \in OrphanHashes :
        /\ p \in DOMAIN vNodes /\ vNodes[p].nVersion # 0
        /\ Receive(p, Msg("tx", TxOf(hash)), QuietEnv)

CleanupNext ==
    \/ TxConnect \/ TxDisconnect \/ TxVersion \/ CleanRecvInv
    \/ CleanRecvOrphan \/ CleanRecvBlock

CleanupSpec == Init /\ [][CleanupNext]_vars

\* ------------------------------------------------------ clean disconnect
\* C11 (as the code has it): FinalizeNode reports fUpdateConnectionTime
\* exactly when the peer's score is 0, the peer is outbound and its VERACK
\* has been processed; for an inbound peer it reports false.
C11_UpdateConnectionTime ==
    \A n \in DOMAIN vNodes :
        FinalizeNodeOp(World, n).fUpdateConnectionTime =
            (/\ mapNodeState[n].nMisbehavior = 0
             /\ ~vNodes[n].fInbound
             /\ vNodes[n].fSuccessfullyConnected)

\* FinalizeNode has just reported a clean connection, and an inbound peer
\* that completed the handshake without penalty is still registered.
C11_Witness ==
    /\ fUpdateConnectionTime
    /\ \E n \in DOMAIN vNodes :
          /\ vNodes[n].fInbound /\ vNodes[n].fSuccessfullyConnected
          /\ mapNodeState[n].nMisbehavior = 0

\* C11 as stated: the report is true exactly when the score is 0 and the
\* VERACK has been processed, inbound or outbound.
C11_AsStated ==
    \A n \in DOMAIN vNodes :
        FinalizeNodeOp(World, n).fUpdateConnectionTime =
            (/\ mapNodeState[n].nMisbehavior = 0
             /\ vNodes[n].fSuccessfullyConnected)

\* --------------------------------------------------------------- cleanup
OwnedInFlight(W, n) ==
    {h \in DOMAIN W.mapBlocksInFlight : W.mapBlocksInFlight[h].nodeid = n}
OwnedSource(W, n) ==
    {h \in DOMAIN W.mapBlockSource : W.mapBlockSource[h].nodeid = n}
OwnedOrphans(W, n) ==
    {h \in DOMAIN W.mapOrphanTransactions :
        W.mapOrphanTransactions[h].fromPeer = n}
IndexedOrphans(W) ==
    UNION {W.mapOrphanTransactionsByPrev[prev] :
              prev \in DOMAIN W.mapOrphanTransactionsByPrev}

\* C12: after FinalizeNode(n) no in-flight entry, no block-source entry and
\* no orphan (in the pool or in its reverse index) names n, and what the
\* other peers own of the three is what they owned before.
C12_FinalizeCleans ==
    \A n \in DOMAIN vNodes :
        LET R == FinalizeNodeOp(World, n)
        IN /\ OwnedInFlight(R, n) = {}
           /\ OwnedSource(R, n) = {}
           /\ OwnedOrphans(R, n) = {}
           /\ IndexedOrphans(R) \cap OwnedOrphans(World, n) = {}
           /\ R.mapBlocksInFlight =
                 Restrict(mapBlocksInFlight,
                          DOMAIN mapBlocksInFlight \ OwnedInFlight(World, n))
           /\ R.mapBlockSource =
                 Restrict(mapBlockSource,
                          DOMAIN mapBlockSource \ OwnedSource(World, n))
           /\ R.mapOrphanTransactions =
                 Restrict(mapOrphanTransactions,
                          DOMAIN mapOrphanTransactions \ OwnedOrphans(World, n))
           /\ \A m \in DOMAIN mapNodeState \ {n} :
                 R.mapNodeState[m].vBlocksInFlight =
                     mapNodeState[m].vBlocksInFlight

\* Two peers are connected; one owns the source entry of a delivered block
\* and an orphan, the other a block in flight and an orphan, so that
\* FinalizeNode of either has entries to remove and entries to keep.
C12_Witness ==
    \E n, m \in DOMAIN vNodes :
        /\ n # m
        /\ OwnedSource(World, n) # {}
        /\ OwnedOrphans(World, n) # {}
        /\ OwnedInFlight(World, m) # {}
        /\ OwnedOrphans(World, m) # {}

\* --------------------------------------------------------- reverse index
\* C13: mapOrphanTransactionsByPrev holds (prev, orphan) exactly when the
\* orphan is in mapOrphanTransactions and has an input spending prev; no
\* index set is empty and none names an orphan that has left the pool.
C13_ReverseIndexExact ==
    /\ \A prev \in DOMAIN mapOrphanTransactionsByPrev :
          /\ mapOrphanTransactionsByPrev[prev] # {}
          /\ \A orphan \in mapOrphanTransactionsByPrev[prev] :
                /\ orphan \in DOMAIN mapOrphanTransactions
                /\ prev \in mapOrphanTransactions[orphan].tx.vin
    /\ \A orphan \in DOMAIN mapOrphanTransactions :
          \A prev \in mapOrphanTransactions[orphan].tx.vin :
              /\ prev \in DOMAIN mapOrphanTransactionsByPrev
              /\ orphan \in mapOrphanTransactionsByPrev[prev]

\* An orphan that spends two parents is alone in the pool and alone in the
\* index set of the parent it shared with an orphan that was rejected when
\* that parent arrived: entries were added, and one was erased since.
C13_Witness ==
    /\ DOMAIN mapOrphanTransactions = {4}
    /\ DOMAIN mapOrphanTransactionsByPrev = {1, 2}
    /\ mapOrphanTransactionsByPrev[1] = {4}
    /\ 1 \in mempool /\ 3 \in recentRejects

\* ------------------------------------------------------------ pool size
PoolSize(W) == Cardinality(DOMAIN W.mapOrphanTransactions)
Handshaken == {p \in DOMAIN vNodes : vNodes[p].nVersion # 0}

\* C14: LimitOrphanTxSize(cap) ends with min(old size, cap) orphans, all of
\* them orphans of the old pool, and returns the number it removed; a TX
\* handler that starts with at most maxorphantx orphans ends with at most
\* maxorphantx orphans.
C14_PoolBounded ==
    /\ \A cap \in 0..DEFAULT_MAX_ORPHAN_TRANSACTIONS, h \in 1..(NumTx + 1) :
          LET r == LimitOrphanTxSize(World, cap, <<h>>)
          IN /\ PoolSize(r.W) = Min(PoolSize(World), cap)
             /\ r.nEvicted = PoolSize(World) - PoolSize(r.W)
             /\ DOMAIN r.W.mapOrphanTransactions
                    \subseteq DOMAIN mapOrphanTransactions
    /\ \A pfrom \in Handshaken, hash \in TxHashes, env \in TxEnvs :
          PoolSize(World) <= env.nMaxOrphanTx
              => PoolSize(HandleTx(World, pfrom, TxOf(hash), env))
                     <= env.nMaxOrphanTx

\* The pool is as large as maxorphantx allows and a TX message brings one
\* more orphan: the handler stores it and evicts an orphan.
C14_Witness ==
    \E pfrom \in Handshaken, hash \in TxHashes, env \in TxEnvs :
        LET R == HandleTx(World, pfrom, TxOf(hash), env)
        IN /\ env.nMaxOrphanTx > 0
           /\ PoolSize(World) = env.nMaxOrphanTx
           /\ hash \in DOMAIN R.mapOrphanTransactions
           /\ hash \notin DOMAIN mapOrphanTransactions
           /\ PoolSize(R) = env.nMaxOrphanTx

\* -------------------------------------------------------- reject filter
TipChanged == GetBlockHash(pindexTip) # hashRecentRejectsChainTip
KnownElsewhere(W, hash) ==
    \/ hash \in W.mempool
    \/ hash \in DOMAIN W.mapOrphanTransactions
    \/ HaveCoin(W, hash)

\* C15: a tx query made when the active tip is not the tip recorded at the
\* previous query empties the reject filter before the lookup and records
\* the tip, so its answer does not depend on the filter; a query under the
\* recorded tip leaves the state alone and reports a rejected tx as had;
\* and a TX handler that adds a rejection leaves the active tip recorded.
C15_RejectsResetOnTipChange ==
    /\ \A hash \in TxHashes :
          LET r == AlreadyHaveTx(World, hash)
          IN IF TipChanged
             THEN /\ r.W = [World EXCEPT
                              !.recentRejects = {},
                              !.hashRecentRejectsChainTip =
                                  GetBlockHash(pindexTip)]
                  /\ r.fHave = KnownElsewhere(World, hash)
             ELSE /\ r.W = World
                  /\ r.fHave = (hash \in recentRejects
                                   \/ KnownElsewhere(World, hash))
    /\ \A pfrom \in Handshaken, hash \in TxHashes, env \in TxEnvs :
          LET R == HandleTx(World, pfrom, TxOf(hash), env)
          IN ~(R.recentRejects \subseteq recentRejects)
                => /\ R.hashRecentRejectsChainTip = GetBlockHash(R.pindexTip)
                   /\ TipChanged => R.recentRejects \cap recentRejects = {}

\* A transaction was rejected, a block was connected since, and the
\* transaction is in neither the mempool, the orphan pool nor the coin view:
\* the next query empties the filter and answers that it is not had.
C15_Witness ==
    \E hash \in recentRejects :
        /\ TipChanged
        /\ ~KnownElsewhere(World, hash)
        /\ ~AlreadyHaveTx(World, hash).fHave
        /\ AlreadyHaveTx(World, hash).W.recentRejects = {}

\* ----------------------------------------------------- orphan resolution
Relayed(W, hash) ==
    \E i \in 1..Len(W.sent) : W.sent[i].cmd = "relay" /\ W.sent[i].arg = hash
Resolvable(W, hash) == AcceptToMemoryPool(W, TxOf(hash)).fAccepted
UnknownParents(W, hash) ==
    {prev \in TxOf(hash).vin : ~AlreadyHaveTx(W, prev).fHave}

\* C16, first half: a transaction that is not had, misses a parent and has
\* no rejected parent is in the orphan pool when its TX handler returns,
\* and each parent that is not had is in the sender's ask-for set.
C16_OrphanStored ==
    \A pfrom \in Handshaken, B \in TxHashes :
        LET R == HandleTx(World, pfrom, TxOf(B), QuietEnv)
            ah == AlreadyHaveTx(World, B)
        IN (/\ ~ah.fHave
            /\ AcceptToMemoryPool(ah.W, TxOf(B)).fMissingInputs
            /\ TxOf(B).vin \cap ah.W.recentRejects = {})
           => /\ B \in DOMAIN R.mapOrphanTransactions
              /\ UnknownParents(ah.W, B) \subseteq R.vNodes[pfrom].setAskFor

\* C16, second half: when the TX handler accepts A, no orphan B that spends
\* A and could now be accepted is left in the orphan pool or in the reverse
\* index; an orphan that the handler accepted was relayed.
C16_OrphanResolved ==
    \A pfrom \in Handshaken, A \in TxHashes :
        LET R == HandleTx(World, pfrom, TxOf(A), QuietEnv)
        IN (A \in R.mempool \ mempool)
           => \A B \in DOMAIN mapOrphanTransactions :
                 A \in TxOf(B).vin
                 => /\ B \in DOMAIN R.mapOrphanTransactions
                          => ~Resolvable(R, B)
                    /\ B \in R.mempool
                          => /\ Relayed(R, B)
                             /\ B \notin DOMAIN R.mapOrphanTransactions
                             /\ B \notin IndexedOrphans(R)

\* C16 as stated: both halves.
C16_AsStated == C16_OrphanStored /\ C16_OrphanResolved

\* C17 as stated: two parents that are both accepted whichever comes first
\* leave the same mempool and the same orphan pool in either order.
C17_AsStated ==
    \A pfrom \in Handshaken, A, B \in TxHashes :
        LET AB == HandleTx(HandleTx(World, pfrom, TxOf(A), QuietEnv),
                           pfrom, TxOf(B), QuietEnv)
            BA == HandleTx(HandleTx(World, pfrom, TxOf(B), QuietEnv),
                           pfrom, TxOf(A), QuietEnv)
        IN (/\ A # B
            /\ {A, B} \cap mempool = {}
            /\ {A, B} \subseteq AB.mempool \cap BA.mempool
            /\ {A, B} \cap (TxOf(A).vin \cup TxOf(B).vin) = {})
           => /\ AB.mempool = BA.mempool
              /\ AB.mapOrphanTransactions = BA.mapOrphanTransactions

\* ------------------------------------------------------- getdata order
Queue(W, p) == W.vNodes[p].vRecvGetData
IsMiss(inv, env) ==
    \/ inv.type = "tx" /\ inv.hash \notin env.mapRelay
    \/ inv.type = "stx" /\ inv.hash \notin env.stxPool
InvTypeOf(cmd) == IF cmd = "merkleblock" THEN "filtered" ELSE cmd

\* The queue positions a response may answer: the entry of its type and
\* hash; for a TX that follows a MERKLEBLOCK, the filtered-block entry; for
\* a NOTFOUND, the entries it lists.
EntriesOf(q, out, a, env) ==
    IF out[a].cmd = "notfound"
    THEN {i \in 1..Len(q) : IsMiss(q[i], env)
                               /\ \E j \in 1..Len(out[a].arg) :
                                      out[a].arg[j] = q[i].hash}
    ELSE IF out[a].cmd = "tx"
            /\ \E b \in 1..(a - 1) : out[b].cmd = "merkleblock"
    THEN {i \in 1..Len(q) : q[i].type = "filtered"}
    ELSE {i \in 1..Len(q) : /\ q[i].type = InvTypeOf(out[a].cmd)
                              /\ q[i].hash = out[a].arg[1]}

\* The responses in cmds answer queue entries and come in queue order: each
\* response can be given an entry it answers so that a later response has a
\* later entry, or the same filtered-block entry.
InRequestOrder(q, out, cmds, env) ==
    LET pos == {a \in 1..Len(out) : out[a].cmd \in cmds}
    IN \E f \in [pos -> 1..Len(q)] :
          /\ \A a \in pos : f[a] \in EntriesOf(q, out, a, env)
          /\ \A a, b \in pos :
                a < b => \/ f[a] < f[b]
                         \/ f[a] = f[b] /\ q[f[a]].type = "filtered"

DataCommands == {"block", "merkleblock", "tx", "stx"}

\* What the claim says of one pass and of ProcessMessages, but for the
\* order of the responses.
ServesFrontToBack(p, env) ==
    LET q == Queue(World, p)
        R == ProcessGetData(World, p, env)
        k == Len(q) - Len(Queue(R, p))
    IN /\ Queue(R, p) = SubSeq(q, k + 1, Len(q))
       /\ \A i \in 1..k : q[i].type \in BlockInvTypes => i = k
       /\ Cardinality({a \in 1..Len(R.sent) :
                          R.sent[a].cmd \in {"block", "merkleblock"}}) <= 1
       /\ (q # <<>> /\ Queue(R, p) # <<>>)
             => \A hash \in TxHashes :
                   ProcessMessages(World, p, Msg("tx", TxOf(hash)), env) = R

\* C18: one pass of ProcessGetData leaves a suffix of the queue, serves at
\* most one block entry and serves it last, and emits BLOCK, MERKLEBLOCK,
\* TX and STX in the order of the entries they answer; the NOTFOUND of the
\* pass, if any, is its last message and lists the misses of the served
\* entries in queue order; a pass that the interrupt ends leaves the whole
\* queue and sends no NOTFOUND; and ProcessMessages handles no message of
\* the peer while the queue is not empty after the pass.
C18_DataInRequestOrder ==
    \A p \in DOMAIN vNodes, env \in ServeEnvs :
        LET q == Queue(World, p)
            R == ProcessGetData(World, p, env)
            out == R.sent
            k == Len(q) - Len(Queue(R, p))
            fInterrupted ==
                /\ env.nInterruptAt \in 1..Len(q) /\ ~env.fPauseSend
                /\ \A i \in 1..(env.nInterruptAt - 1) :
                      q[i].type \notin BlockInvTypes
            misses == SelectSeq(SubSeq(q, 1, k), LAMBDA inv : IsMiss(inv, env))
        IN /\ ServesFrontToBack(p, env)
           /\ InRequestOrder(q, out, DataCommands, env)
           /\ \A a \in 1..Len(out) :
                 out[a].cmd = "notfound"
                     => /\ a = Len(out)
                        /\ out[a].arg = [j \in 1..Len(misses) |-> misses[j].hash]
           /\ (misses # <<>>) => out # <<>> /\ out[Len(out)].cmd = "notfound"
           /\ fInterrupted
                 => /\ Queue(R, p) = q
                    /\ \A a \in 1..Len(out) : out[a].cmd # "notfound"

\* A pass serves a transaction that is not in the relay map and then one
\* that is: TX, then NOTFOUND.
C18_Witness ==
    \E p \in DOMAIN vNodes, env \in ServeEnvs :
        LET q == Queue(World, p)
            out == ProcessGetData(World, p, env).sent
        IN /\ Len(q) = 2
           /\ q[1].type = "tx" /\ IsMiss(q[1], env)
           /\ q[2].type = "tx" /\ ~IsMiss(q[2], env)
           /\ Len(out) = 2
           /\ out[1].cmd = "tx" /\ out[2].cmd = "notfound"

\* C18 as stated: every response, NOTFOUND included, comes in the order of
\* the entries it answers.
C18_AsStated ==
    \A p \in DOMAIN vNodes, env \in ServeEnvs :
        /\ ServesFrontToBack(p, env)
        /\ InRequestOrder(Queue(World, p),
                          ProcessGetData(World, p, env).sent,
                          DataCommands \cup {"notfound"}, env)

\* ------------------------------------------------------------ interrupt
InterruptEnvs == {[QuietEnv EXCEPT !.nInterruptAt = i] : i \in 0..2}
AskedFor(W, pfrom, hash) ==
    \E k \in 1..Len(W.sent) :
        /\ W.sent[k].cmd = "getdata" /\ W.sent[k].to = pfrom
        /\ \E j \in 1..Len(W.sent[k].arg) : W.sent[k].arg[j] = hash

\* C19 as stated: whenever the INV handler returns, interrupted or not,
\* every block it marked in flight for the peer is in a GETDATA it sent to
\* that peer.
C19_AsStated ==
    \A pfrom \in Handshaken, vInv \in BlockInvs, env \in InterruptEnvs :
        LET R == HandleInv(World, pfrom, InvArg(vInv), env)
        IN \A hash \in DOMAIN R.mapBlocksInFlight \ DOMAIN mapBlocksInFlight :
              AskedFor(R, pfrom, hash)

\* ----------------------------------------------------------------- locks
\* C20 as stated: handlers of different peers cannot race on the registry:
\* while a worker is inside Misbehaving for a peer, between its read and
\* its write of the score, the score is the one it read, as it would be if
\* the worker held cs_main.
C20_AsStated ==
    \A p \in DOMAIN inMisbehaving :
        mapNodeState[p].nMisbehavior = inMisbehaving[p].nMisbehavior

\* Position of a mutex in the list a worker holds, 0 if it does not hold it.
HeldAt(p, lock) ==
    IF lock \in SeqToSet(locks[p].held)
    THEN CHOOSE i \in 1..Len(locks[p].held) : locks[p].held[i] = lock
    ELSE 0

\* C21: a worker that holds cs_main and a peer-local mutex took cs_main
\* first, and no worker holds a mutex twice.
C21_ChainBeforePeerLocal ==
    \A p \in DOMAIN locks :
        /\ \A l \in PeerLocalLocks :
              (HeldAt(p, "cs_main") # 0 /\ HeldAt(p, l) # 0)
                  => HeldAt(p, "cs_main") < HeldAt(p, l)
        /\ Cardinality(SeqToSet(locks[p].held)) = Len(locks[p].held)

\* A worker serving a filtered block holds cs_main and the peer's cs_filter
\* while another worker is in a tick.
C21_Witness ==
    \E p, q \in DOMAIN locks :
        /\ locks[p].path = "ProcessGetData"
        /\ locks[p].held = <<"cs_main", "cs_filter">>
        /\ locks[q].path = "SendMessages"

\* C21 as stated: a worker that holds a peer-local mutex and cs_main took
\* the peer-local mutex first.
C21_AsStated ==
    \A p \in DOMAIN locks, l \in PeerLocalLocks :
        (HeldAt(p, "cs_main") # 0 /\ HeldAt(p, l) # 0)
            => HeldAt(p, l) < HeldAt(p, "cs_main")

\* ------------------------------------------------------------------ tick
\* The fields of a node that "Message: ping" writes.
PingFields(node) ==
    [fPingQueued |-> node.fPingQueued, nPingUsecStart |-> node.nPingUsecStart,
     nPingNonceSent |-> node.nPingNonceSent]
WithPingFields(node, f) ==
    [node EXCEPT !.fPingQueued = f.fPingQueued,
                 !.nPingUsecStart = f.nPingUsecStart,
                 !.nPingNonceSent = f.nPingNonceSent]

\* C22: a tick that finds cs_main taken changes nothing but the ping fields
\* of its peer and sends nothing but that ping.
C22_ContendedTick ==
    \A p \in DOMAIN vNodes, env \in PingEnvs :
        ~env.fLockMain =>
            LET R == SendMessages(World, p, env)
            IN /\ [R EXCEPT !.vNodes[p] =
                                WithPingFields(@, PingFields(vNodes[p])),
                            !.sent = <<>>] = World
               /\ Len(R.sent) <= 1
               /\ \A i \in 1..Len(R.sent) :
                     /\ R.sent[i].cmd = "ping" /\ R.sent[i].to = p
                     /\ R.vNodes[p].nPingNonceSent = R.sent[i].arg
               /\ R.sent = <<>> => R = World

\* A tick that would start the headers sync finds cs_main taken when the
\* ping is due: the ping goes out and the sync is not started.
C22_Witness ==
    \E p \in DOMAIN vNodes, env \in PingEnvs :
        /\ ~env.fLockMain
        /\ Len(SendMessages(World, p, env).sent) = 1
        /\ SendMessages(World, p, [env EXCEPT !.fLockMain = TRUE]).nSyncStarted
               # nSyncStarted

\* ------------------------------------------------------ download timeout
\* The peers with a block in flight whose header was validated.
ValidatedDownloaders ==
    {n \in DOMAIN mapNodeState :
        \E i \in 1..Len(mapNodeState[n].vBlocksInFlight) :
            mapNodeState[n].vBlocksInFlight[i].fValidatedHeaders}

Deadline(p) ==
    mapNodeState[p].nDownloadingSince
        + nTargetSpacing
            * (BLOCK_DOWNLOAD_TIMEOUT_BASE
                 + BLOCK_DOWNLOAD_TIMEOUT_PER_PEER
                     * Cardinality(ValidatedDownloaders \ {p}))

TickAt(p, t) == SendMessages(World, p, [NowEnv EXCEPT !.nNow = t])

Stalled(p, t) ==
    /\ mapNodeState[p].nStallingSince # 0
    /\ t - mapNodeState[p].nStallingSince > 1000000 * BLOCK_STALLING_TIMEOUT

\* The tick of p at time t gets as far as the download timeout.
ReachesTimeout(p, t) ==
    /\ vNodes[p].fSuccessfullyConnected /\ ~vNodes[p].fDisconnect
    /\ ~mapNodeState[p].fShouldBan
    /\ ~Stalled(p, t)
    /\ mapNodeState[p].vBlocksInFlight # <<>>

AddrCounts == {1000, 1001}
AddrManagerEnvs == {[ObservedEnv EXCEPT !.nAddressCount = c] :
                       c \in AddrCounts}
Addresses == {[key |-> 1, fServices |-> s, fRecent |-> TRUE,
               fRoutable |-> TRUE, fReachable |-> r] : s, r \in BOOLEAN}
AddrArgs == {[nSize |-> n, vAddr |-> <<a>>] : n \in {1, 1000}, a \in Addresses}
OversizedAddr == [nSize |-> 1001, vAddr |-> <<>>]
AddrCfgs == {PlainCfg, [PlainCfg EXCEPT !.fOneShot = TRUE]}

AddrConnect ==
    \E p \in Peers, cfg \in AddrCfgs :
        /\ p \notin setBanned
        /\ InitializeNode(p, cfg)
AddrVersion ==
    \E p \in Peers, env \in AddrManagerEnvs :
        /\ p \in DOMAIN vNodes /\ vNodes[p].nVersion = 0
        /\ Receive(p, Msg("version", GoodVersion), env)
AddrRecv ==
    \E p \in Peers, env \in AddrManagerEnvs, arg \in AddrArgs \cup {OversizedAddr} :
        /\ p \in DOMAIN vNodes /\ vNodes[p].nVersion # 0
        /\ Receive(p, Msg("addr", arg), env)

AddrNext ==
    \/ AddrConnect \/ BanDisconnect \/ AddrVersion \/ BanVerack
    \/ AddrRecv \/ BanTick

AddrSpec == Init /\ [][AddrNext]_vars

\* C25: an ADDR message of more than 1000 entries adds 20 to the sender's
\* misbehaviour score and stores and relays nothing, however many addresses
\* the address manager holds.
C25_AsStated ==
    \A p \in DOMAIN vNodes, env \in AddrManagerEnvs :
        (vNodes[p].nVersion # 0 /\ ~vNodes[p].fDisconnect)
            => LET R == ProcessMessage(World, p, Msg("addr", OversizedAddr), env)
               IN /\ R.mapNodeState[p].nMisbehavior
                        = mapNodeState[p].nMisbehavior + 20
                  /\ R.sent = <<>>
                  /\ R.vNodes[p].addrKnown = vNodes[p].addrKnown

\* ------------------------------------------------------ repeated block INV
InvPairEnvs == {[QuietEnv EXCEPT !.fCanDirectFetch = d, !.fImporting = i] :
                   d, i \in BOOLEAN}

\* How often hash is named in the GETDATA messages of msgs.
GetDataCount(msgs, hash) ==
    LET RECURSIVE Count(_, _)
        Count(i, j) ==
            IF i > Len(msgs) THEN 0
            ELSE IF msgs[i].cmd # "getdata" \/ j > Len(msgs[i].arg)
            THEN Count(i + 1, 1)
            ELSE (IF msgs[i].arg[j] = hash THEN 1 ELSE 0) + Count(i, j + 1)
    IN Count(1, 1)

\* The INV of one hash handled in world W, which has nothing sent yet.
InvOnce(W, p, hash, env) ==
    ProcessMessage([W EXCEPT !.sent = <<>>], p, Msg("inv", InvArg(<<hash>>)), env)

\* C26: the same block INV handled twice from a peer, with nothing in
\* between, requests the hash with GETDATA at most once; a request marks the
\* hash in flight, and an INV for a hash that is in flight or known neither
\* requests it nor changes the in-flight index or the peer's in-flight list.
\* The same holds for a hash named twice in one INV.
C26_InvTwiceOneGetData ==
    \A p \in DOMAIN vNodes, hash \in OfferedHashes :
        vNodes[p].nVersion # 0 =>
            /\ \A env1 \in InvPairEnvs :
                   LET first == InvOnce(World, p, hash, env1)
                       n1 == GetDataCount(first.sent, hash)
                   IN /\ n1 <= 1
                      /\ n1 = 1 => hash \in DOMAIN first.mapBlocksInFlight
                      /\ \A env2 \in InvPairEnvs :
                             LET second == InvOnce(first, p, hash, env2)
                                 n2 == GetDataCount(second.sent, hash)
                             IN /\ n1 + n2 <= 1
                                /\ (hash \in DOMAIN first.mapBlocksInFlight
                                       \/ AlreadyHaveBlock(first, hash))
                                      => /\ n2 = 0
                                         /\ second.mapBlocksInFlight
                                               = first.mapBlocksInFlight
                                         /\ second.mapNodeState[p].vBlocksInFlight
                                               = first.mapNodeState[p].vBlocksInFlight
            /\ \A env \in InvPairEnvs :
                   GetDataCount(ProcessMessage(World, p,
                                    Msg("inv", InvArg(<<hash, hash>>)), env).sent,
                                hash) <= 1

\* A peer announces a block that is neither known nor in flight, is asked for
\* it, announces it again and is not asked again.
C26_Witness ==
    \E p \in DOMAIN vNodes, hash \in OfferedHashes :
        /\ vNodes[p].nVersion # 0
        /\ hash \notin DOMAIN mapBlocksInFlight /\ ~AlreadyHaveBlock(World, hash)
        /\ LET first == InvOnce(World, p, hash, QuietEnv)
           IN /\ GetDataCount(first.sent, hash) = 1
              /\ GetDataCount(InvOnce(first, p, hash, QuietEnv).sent, hash) = 0

\* ------------------------------------------------ mark in flight, then received
AllHashes == {GetBlockHash(i) : i \in AllIndex} \cup BogusHashes

\* MarkBlockAsInFlight(nodeid, hash, pindex) followed at once by
\* MarkBlockAsReceived(hash).
MarkPair(nodeid, hash, pindex) ==
    MarkBlockAsReceived(
        MarkBlockAsInFlight(World, nodeid, hash, pindex, QuietEnv.nNow),
        hash, QuietEnv.nNow)

\* The headers MarkBlockAsInFlight may be given for hash.
IndexChoices(hash) ==
    {NoIndex} \cup {i \in mapBlockIndex : GetBlockHash(i) = hash}

\* C27: marking a hash in flight for a registered peer and at once marking it
\* received leaves the in-flight index without the hash and otherwise as it
\* was; when the hash was not in flight before the pair, the index, the
\* peer's in-flight list and count and the number of peers with validated
\* downloads are what they were before, and when it was, the entry of the
\* peer that had it is gone from the index and from that peer's list.
C27_MarkPairErasesHash ==
    \A nodeid \in DOMAIN mapNodeState, hash \in AllHashes :
        \A pindex \in IndexChoices(hash) :
            LET R == MarkPair(nodeid, hash, pindex)
            IN /\ R.fault = "none"
               /\ R.mapBlocksInFlight
                     = Restrict(mapBlocksInFlight, DOMAIN mapBlocksInFlight \ {hash})
               /\ hash \notin DOMAIN mapBlocksInFlight
                     => /\ R.mapBlocksInFlight = mapBlocksInFlight
                        /\ R.mapNodeState[nodeid].vBlocksInFlight
                              = mapNodeState[nodeid].vBlocksInFlight
                        /\ R.mapNodeState[nodeid].nBlocksInFlight
                              = mapNodeState[nodeid].nBlocksInFlight
                        /\ R.nPeersWithValidatedDownloads
                              = nPeersWithValidatedDownloads
               /\ hash \in DOMAIN mapBlocksInFlight
                     => LET owner == mapBlocksInFlight[hash].nodeid
                        IN /\ R.mapBlocksInFlight # mapBlocksInFlight
                           /\ \A i \in 1..Len(R.mapNodeState[owner].vBlocksInFlight) :
                                  R.mapNodeState[owner].vBlocksInFlight[i].hash # hash
                           /\ R.mapNodeState[owner].nBlocksInFlight
                                 = mapNodeState[owner].nBlocksInFlight - 1

\* C27 as stated: the pair leaves the in-flight index as it was, for every
\* registered peer and every hash.
C27_AsStated ==
    \A nodeid \in DOMAIN mapNodeState, hash \in AllHashes :
        \A pindex \in IndexChoices(hash) :
            MarkPair(nodeid, hash, pindex).mapBlocksInFlight = mapBlocksInFlight

\* A block is in flight from one peer when the pair is applied for another
\* peer, and the index loses the entry.
C27_Witness ==
    \E nodeid \in DOMAIN mapNodeState, hash \in DOMAIN mapBlocksInFlight :
        /\ mapBlocksInFlight[hash].nodeid # nodeid
        /\ hash \notin DOMAIN MarkPair(nodeid, hash, NoIndex).mapBlocksInFlight

\* -------------------------------------------------------- relay specification
\* Plain and whitelisted peers complete the handshake and send transactions;
\* the ticks announce the relayed transactions when the peer's next send time
\* has come, and the clock advances past it.
RelayCfgs == {PlainCfg, [PlainCfg EXCEPT !.fWhitelisted = TRUE]}
RelayTimePoints == {1000000 + QuietEnv.nPoissonDelay + 1}
RelayEnv == [NowEnv EXCEPT !.fObserve = TRUE, !.fInventory = TRUE]
RelayEnvs == {[RelayEnv EXCEPT !.fWhitelistForceRelay = f] : f \in BOOLEAN}
RelayTxHashes == 1..2

RelayAdvance ==
    \E t \in RelayTimePoints :
        /\ nTimeMicros < t
        /\ Step([World EXCEPT !.nTimeMicros = t])
RelayConnect == \E p \in Peers, cfg \in RelayCfgs : InitializeNode(p, cfg)
RelayDisconnect == \E p \in Peers : FinalizeNode(p)
RelayVersion ==
    \E p \in Peers :
        /\ p \in DOMAIN vNodes /\ vNodes[p].nVersion = 0
        /\ Receive(p, Msg("version", GoodVersion), RelayEnv)
RelayVerack ==
    \E p \in Peers :
        /\ p \in DOMAIN vNodes /\ vNodes[p].nVersion # 0
        /\ ~vNodes[p].fSuccessfullyConnected
        /\ Receive(p, Msg("verack", 0), RelayEnv)
RelayRecvTx ==
    \E p \in Peers, hash \in RelayTxHashes, env \in RelayEnvs :
        /\ p \in DOMAIN vNodes /\ vNodes[p].fSuccessfullyConnected
        /\ Receive(p, Msg("tx", TxOf(hash)), env)
RelayTick == \E p \in Peers : Tick(p, RelayEnv)

RelayNext ==
    \/ RelayAdvance \/ RelayConnect \/ RelayDisconnect \/ RelayVersion
    \/ RelayVerack \/ RelayRecvTx \/ RelayTick

RelaySpec == Init /\ [][RelayNext]_vars

\* The tx hashes the INV messages of msgs announce to peer p, one entry per
\* announcement.
Announcements(msgs, p) ==
    LET RECURSIVE Collect(_)
        Collect(i) ==
            IF i > Len(msgs) THEN <<>>
            ELSE IF msgs[i].cmd = "inv" /\ msgs[i].to = p
            THEN SelectSeq(msgs[i].arg, LAMBDA inv : inv.type = "tx")
                     \o Collect(i + 1)
            ELSE Collect(i + 1)
    IN Collect(1)

AnnouncedTo(msgs, p) ==
    {Announcements(msgs, p)[i].hash : i \in 1..Len(Announcements(msgs, p))}

\* C28: a tick announces a tx hash to a peer only if the peer's
\* known-inventory filter does not contain it, announces it once and inserts
\* it into the filter; the filter of a connected peer never loses a hash, and
\* no other step sends the peer a tx INV.  So a hash is announced to a peer at
\* most once while it remains in the peer's filter.
C28_AnnouncedOnce ==
    /\ [](\A p \in DOMAIN vNodes :
            LET R == SendMessages(World, p, RelayEnv)
                a == Announcements(R.sent, p)
            IN /\ \A i, j \in 1..Len(a) : a[i].hash = a[j].hash => i = j
               /\ \A hash \in AnnouncedTo(R.sent, p) :
                      /\ hash \notin vNodes[p].filterInventoryKnown
                      /\ hash \in R.vNodes[p].filterInventoryKnown
                      /\ hash \notin AnnouncedTo(
                             SendMessages([R EXCEPT !.sent = <<>>], p, RelayEnv).sent,
                             p))
    /\ [][\A p \in DOMAIN vNodes \cap DOMAIN vNodes' :
              /\ vNodes[p].filterInventoryKnown
                     \subseteq vNodes'[p].filterInventoryKnown
              /\ \A hash \in AnnouncedTo(sent', p) :
                     /\ hash \notin vNodes[p].filterInventoryKnown
                     /\ hash \in vNodes'[p].filterInventoryKnown]_vars

\* A transaction has just been announced to a peer, is in the peer's filter,
\* and the peer's next tick does not announce it.
C28_Witness ==
    \E p \in DOMAIN vNodes :
        \E hash \in AnnouncedTo(sent, p) :
            /\ hash \in vNodes[p].filterInventoryKnown
            /\ hash \in mempool
            /\ hash \notin AnnouncedTo(SendMessages(World, p, RelayEnv).sent, p)

\* ------------------------------------------------ force-relay specification
\* Plain and whitelisted peers send their VERSION and then transactions the
\* node may already have, with -whitelistforcerelay on or off and the node
\* relaying transactions or in blocks-only mode; the block confirms some.
ForceRelayEnvs == {[QuietEnv EXCEPT !.fWhitelistForceRelay = f, !.fRelayTxes = r] :
                      f, r \in BOOLEAN}

ForceRelayConnect == \E p \in Peers, cfg \in RelayCfgs : InitializeNode(p, cfg)
ForceRelayRecvTx ==
    \E p \in Peers, hash \in TxHashes, env \in ForceRelayEnvs :
        /\ p \in DOMAIN vNodes /\ vNodes[p].nVersion # 0
        /\ Receive(p, Msg("tx", TxOf(hash)), env)

ForceRelayNext ==
    \/ ForceRelayConnect \/ TxDisconnect \/ TxVersion \/ ForceRelayRecvTx
    \/ TxRecvBlock

ForceRelaySpec == Init /\ [][ForceRelayNext]_vars

\* The TX handler is past the blocks-only test for peer p.
TxConsidered(p, env) ==
    env.fRelayTxes \/ (vNodes[p].fWhitelisted /\ env.fWhitelistRelay)

\* What AlreadyHave answers for hash when the TX handler of peer p asks.
TxAlreadyHave(p, hash) ==
    AlreadyHaveTx([World EXCEPT !.vNodes[p].filterInventoryKnown = @ \cup {hash},
                                !.vNodes[p].setAskFor = @ \ {hash}],
                  hash)

AfterPong(p, arg) == ProcessMessage(World, p, Msg("pong", arg), NowEnv)

\* The round-trip values of a node.
PingTimes(node) ==
    [nPingUsecTime |-> node.nPingUsecTime,
     nMinPingUsecTime |-> node.nMinPingUsecTime]

\* C30: a PONG writes nothing but the outstanding nonce and the round-trip
\* values of its sender and never the ping start time.  With no ping
\* outstanding it changes nothing, and so does a nonce that is neither the
\* outstanding one nor 0.  With a ping outstanding, a nonce of 0 or a payload
\* too short for a nonce cancels the ping (the outstanding nonce becomes 0)
\* and records no round-trip time; the outstanding nonce clears the ping and
\* records the time since the ping was sent if that time is positive.
C30_PongEffects ==
    \A p \in DOMAIN vNodes, arg \in PongArgs :
        vNodes[p].fSuccessfullyConnected =>
            LET R == AfterPong(p, arg)
                node == vNodes[p]
                nRtt == nTimeMicros - node.nPingUsecStart
            IN /\ R = [World EXCEPT
                          !.vNodes[p].nPingNonceSent = R.vNodes[p].nPingNonceSent,
                          !.vNodes[p].nPingUsecTime = R.vNodes[p].nPingUsecTime,
                          !.vNodes[p].nMinPingUsecTime =
                              R.vNodes[p].nMinPingUsecTime]
               /\ node.nPingNonceSent = 0 => R = World
               /\ (~arg.fShort /\ arg.nonce \notin {0, node.nPingNonceSent})
                     => R = World
               /\ (node.nPingNonceSent # 0 /\ (arg.fShort \/ arg.nonce = 0))
                     => /\ R.vNodes[p].nPingNonceSent = 0
                        /\ PingTimes(R.vNodes[p]) = PingTimes(node)
               /\ (node.nPingNonceSent # 0 /\ ~arg.fShort
                      /\ arg.nonce = node.nPingNonceSent)
                     => /\ R.vNodes[p].nPingNonceSent = 0
                        /\ PingTimes(R.vNodes[p]) =
                              IF nRtt > 0
                              THEN [nPingUsecTime |-> nRtt,
                                    nMinPingUsecTime |->
                                        Min(node.nMinPingUsecTime, nRtt)]
                              ELSE PingTimes(node)

\* C30 as stated: a PONG that is unsolicited or carries nonce 0 leaves the
\* outstanding nonce, the start time and the round-trip values alone, and
\* only the outstanding non-zero nonce clears the outstanding ping.
C30_AsStated ==
    \A p \in DOMAIN vNodes, arg \in PongArgs :
        (vNodes[p].fSuccessfullyConnected /\ ~arg.fShort) =>
            LET R == AfterPong(p, arg)
                node == vNodes[p]
            IN /\ (node.nPingNonceSent = 0 \/ arg.nonce = 0)
                     => /\ PingFields(R.vNodes[p]) = PingFields(node)
                        /\ PingTimes(R.vNodes[p]) = PingTimes(node)
               /\ R.vNodes[p].nPingNonceSent # node.nPingNonceSent
                     => (node.nPingNonceSent # 0
                            /\ arg.nonce = node.nPingNonceSent)

\* A peer with a ping outstanding for some time answers with nonce 0, which
\* cancels the ping, where the right nonce would have recorded the time.
C30_Witness ==
    \E p \in DOMAIN vNodes :
        /\ vNodes[p].fSuccessfullyConnected
        /\ vNodes[p].nPingNonceSent # 0
        /\ nTimeMicros > vNodes[p].nPingUsecStart
        /\ AfterPong(p, [nonce |-> 0, fShort |-> FALSE]).vNodes[p].nPingNonceSent = 0
        /\ AfterPong(p, [nonce |-> vNodes[p].nPingNonceSent, fShort |-> FALSE])
               .vNodes[p].nPingUsecTime = nTimeMicros - vNodes[p].nPingUsecStart

\* --------------------------------------------------- headers-sync specification
\* Outbound, inbound and one-shot peers, full nodes and clients, complete the
\* handshake; the ticks come while the best header is recent or old, during
\* an import or not, and peers disconnect at any time.
SyncCfgs == {PlainCfg,
             [PlainCfg EXCEPT !.fInbound = TRUE],
             [PlainCfg EXCEPT !.fOneShot = TRUE]}
SyncVersions == {GoodVersion, [GoodVersion EXCEPT !.fNodeNetwork = FALSE]}
SyncEnvs == {[ObservedEnv EXCEPT !.fBestHeaderRecent = r, !.fImporting = i] :
                r, i \in BOOLEAN}

SyncConnect == \E p \in Peers, cfg \in SyncCfgs : InitializeNode(p, cfg)
SyncVersion ==
    \E p \in Peers, arg \in SyncVersions :
        /\ p \in DOMAIN vNodes /\ vNodes[p].nVersion = 0
        /\ Receive(p, Msg("version", arg), QuietEnv)
SyncTick == \E p \in Peers, env \in SyncEnvs : Tick(p, env)

SyncNext ==
    \/ SyncConnect \/ Disconnect \/ SyncVersion \/ RecvVerack \/ SyncTick

SyncSpec == Init /\ [][SyncNext]_vars

\* The tick of peer p under env starts the headers sync on p.
StartsSync(p, env) ==
    LET R == SendMessages(World, p, env)
    IN /\ p \in DOMAIN R.mapNodeState
       /\ R.mapNodeState[p].fSyncStarted /\ ~mapNodeState[p].fSyncStarted

\* fFetch as the tick of peer p computes it.
Qualifies(p) ==
    \/ mapNodeState[p].fPreferredDownload
    \/ (nPreferredDownload = 0 /\ ~vNodes[p].fClient /\ ~vNodes[p].fOneShot)

\* C31: a tick starts the headers sync on its peer (sets fSyncStarted, counts
\* it in nSyncStarted and sends the initial GETHEADERS) exactly when the peer
\* has completed the handshake and is neither marked for disconnection nor
\* banned, has not started the sync, is not a client, no import or reindex
\* runs, and either no peer is syncing and the peer qualifies, or the best
\* header is less than a day old; in the second case other peers may be
\* syncing already.
C31_StartSync ==
    \A p \in DOMAIN vNodes, env \in SyncEnvs :
        LET R == SendMessages(World, p, env)
        IN /\ StartsSync(p, env)
              <=> /\ vNodes[p].fSuccessfullyConnected /\ ~vNodes[p].fDisconnect
                  /\ ~mapNodeState[p].fShouldBan
                  /\ ~mapNodeState[p].fSyncStarted /\ ~vNodes[p].fClient
                  /\ ~env.fImporting
                  /\ \/ nSyncStarted = 0 /\ Qualifies(p)
                     \/ env.fBestHeaderRecent
           /\ StartsSync(p, env)
                 => /\ R.nSyncStarted = nSyncStarted + 1
                    /\ \E i \in 1..Len(R.sent) :
                           R.sent[i].cmd = "getheaders" /\ R.sent[i].to = p
           /\ ~StartsSync(p, env)
                 => /\ R.nSyncStarted = nSyncStarted
                    /\ \A i \in 1..Len(R.sent) : R.sent[i].cmd # "getheaders"

\* C31 as stated: the sync starts only on a peer that qualifies and only
\* when no peer is syncing.
C31_AsStated ==
    \A p \in DOMAIN vNodes, env \in SyncEnvs :
        StartsSync(p, env) => (nSyncStarted = 0 /\ Qualifies(p))

\* One peer is syncing and the best header is recent: the tick of another
\* peer starts the sync on it as well.
C31_Witness ==
    \E p \in DOMAIN vNodes :
        /\ nSyncStarted = 1
        /\ StartsSync(p, [ObservedEnv EXCEPT !.fBestHeaderRecent = TRUE])
        /\ ~StartsSync(p, ObservedEnv)

\* ------------------------------------------------ FindNextBlocksToDownload
FindCounts == 0..(MAX_BLOCKS_IN_TRANSIT_PER_PEER + 1)

\* pindexBestKnownBlock of peer p once ProcessBlockAvailability has run.
FindBest(p) ==
    ProcessBlockAvailability(World, p).mapNodeState[p].pindexBestKnownBlock

\* The block the walk of peer p starts from: pindexLastCommonBlock, or the
\* guess when it is not set, taken back to an ancestor of the best known
\* block.
FindCommon(p) ==
    LET last == mapNodeState[p].pindexLastCommonBlock
    IN LastCommonAncestor(
           IF last = NoIndex
           THEN ChainAt(World, Min(nHeight(FindBest(p)), nHeight(pindexTip)))
           ELSE last,
           FindBest(p))

\* The peer's best known block is set and has at least the work of the tip.
FindInteresting(p) ==
    FindBest(p) # NoIndex /\ nChainWork(FindBest(p)) >= nChainWork(pindexTip)

FindHeights(p) ==
    (nHeight(FindCommon(p)) + 1)
        ..Min(nHeight(FindBest(p)),
              nHeight(FindCommon(p)) + BLOCK_DOWNLOAD_WINDOW + 1)
FindMissing(p) ==
    {h \in FindHeights(p) :
        LET pindex == GetAncestor(FindBest(p), h)
        IN ~HaveData(World, pindex) /\ ~ChainContains(World, pindex)}
FindFree(p) ==
    {h \in FindMissing(p) :
        GetBlockHash(GetAncestor(FindBest(p), h)) \notin DOMAIN mapBlocksInFlight}

\* The first missing block that is not in flight lies beyond the window.
FindBlocked(p) ==
    /\ FindInteresting(p) /\ FindFree(p) # {}
    /\ \A h \in FindFree(p) :
           h > nHeight(FindCommon(p)) + BLOCK_DOWNLOAD_WINDOW

\* The holder of the first block in flight the walk of peer p meets, NoNode
\* if it meets none.
FindHolder(p) ==
    LET held == FindMissing(p) \ FindFree(p)
    IN IF held = {} THEN NoNode
       ELSE LET h == CHOOSE k \in held : \A l \in held : k <= l
            IN mapBlocksInFlight[GetBlockHash(GetAncestor(FindBest(p), h))].nodeid

OrphanTxOf(hash) ==
    [hash |-> hash,
     vin |-> IF hash = 1 THEN {FundingTx} ELSE {1},
     nOut |-> 1,
     nSize |-> 250,
     fValid |-> hash \notin {2, 3},
     nDoS |-> IF hash = 2 THEN 10 ELSE IF hash = 3 THEN 20 ELSE 0,
     chRejectCode |-> IF hash \in {2, 3} THEN REJECT_INVALID ELSE 0]

OrphanRecvTx ==
    \E p \in Peers, hash \in TxHashes, env \in TxEnvs :
        /\ p \in DOMAIN vNodes /\ vNodes[p].nVersion # 0
        /\ Receive(p, Msg("tx", OrphanTxOf(hash)), env)

OrphanNext == TxConnect \/ TxDisconnect \/ TxVersion \/ OrphanRecvTx

OrphanSpec == Init /\ [][OrphanNext]_vars

\* What a handler result R adds to the score of peer q.
Charged(R, q) ==
    IF q \in DOMAIN R.mapNodeState
    THEN R.mapNodeState[q].nMisbehavior - mapNodeState[q].nMisbehavior
    ELSE 0

\* The orphans of peer q.
OrphansOf(q) ==
    {B \in DOMAIN mapOrphanTransactions : mapOrphanTransactions[B].fromPeer = q}

\* The orphans of peer q that the handler found invalid: they left the pool
\* and are in the reject filter.
Convicted(R, q) ==
    {B \in OrphansOf(q) :
        /\ ~mapOrphanTransactions[B].tx.fValid
        /\ B \notin DOMAIN R.mapOrphanTransactions
        /\ B \in R.recentRejects}

\* A handler result R leaves orphan C as it was.
Untouched(R, C) ==
    /\ C \in DOMAIN R.mapOrphanTransactions
    /\ R.mapOrphanTransactions[C] = mapOrphanTransactions[C]
    /\ C \notin R.mempool

\* C34: when a TX message is accepted and its orphans are resolved, a peer's
\* score grows only by the penalty of one invalid orphan that this peer
\* supplied - so the sender of the parent is charged only for an orphan of
\* its own - and every later orphan of a charged peer is skipped: it stays
\* in the pool and out of the mempool.
C34_OrphanCharge ==
    \A pfrom \in Handshaken, A \in TxHashes, env \in TxEnvs :
        LET R == HandleTx(World, pfrom, OrphanTxOf(A), env)
        IN (A \in R.mempool \ mempool)
           => \A q \in DOMAIN mapNodeState :
                 /\ Charged(R, q) >= 0
                 /\ Charged(R, q) = 0 => Convicted(R, q) = {}
                 /\ Charged(R, q) > 0
                       => \E B \in OrphansOf(q) :
                             /\ Convicted(R, q) = {B}
                             /\ Charged(R, q) = mapOrphanTransactions[B].tx.nDoS
                             /\ \A C \in OrphansOf(q) :
                                   C > B => Untouched(R, C)

\* One peer supplied two invalid orphans, another delivers their parent: the
\* supplier is charged for the first orphan only, the second stays in the
\* pool and the sender of the parent is not charged.
C34_Witness ==
    \E pfrom \in Handshaken, q \in DOMAIN mapNodeState :
        LET R == HandleTx(World, pfrom, OrphanTxOf(1), QuietEnv)
        IN /\ q # pfrom
           /\ OrphansOf(q) = {2, 3}
           /\ 1 \in R.mempool \ mempool
           /\ Charged(R, q) = 10
           /\ Charged(R, pfrom) = 0
           /\ Convicted(R, q) = {2}
           /\ Untouched(R, 3)

\* ------------------------------------------------------ per-peer counters
\* The entries of peer n's vBlocksInFlight whose header was validated.
ValidatedEntries(n) ==
    {i \in 1..Len(mapNodeState[n].vBlocksInFlight) :
        mapNodeState[n].vBlocksInFlight[i].fValidatedHeaders}

\* C37: for every registered peer nBlocksInFlight is the length of its
\* vBlocksInFlight list and nBlocksInFlightValidHeaders is the number of
\* list entries with fValidatedHeaders set; neither counter is negative.
C37_CountersMatchList ==
    \A n \in DOMAIN mapNodeState :
        /\ mapNodeState[n].nBlocksInFlight = Len(mapNodeState[n].vBlocksInFlight)
        /\ mapNodeState[n].nBlocksInFlightValidHeaders
               = Cardinality(ValidatedEntries(n))
        /\ mapNodeState[n].nBlocksInFlight >= 0
        /\ mapNodeState[n].nBlocksInFlightValidHeaders >= 0

\* One peer's list holds a block with a validated header, another peer's a
\* block whose header is not known.
C37_Witness ==
    \E n, m \in DOMAIN mapNodeState :
        /\ Len(mapNodeState[n].vBlocksInFlight) = 1
        /\ ValidatedEntries(n) = {1}
        /\ Len(mapNodeState[m].vBlocksInFlight) = 1
        /\ ValidatedEntries(m) = {}

\* ------------------------------------------------------- syncing counter
\* The registered peers whose fSyncStarted flag is set.
Syncing == {p \in DOMAIN mapNodeState : mapNodeState[p].fSyncStarted}

\* A step that raises nSyncStarted sets the flag of one registered peer and
\* sends it GETHEADERS; a step that lowers it removes one peer whose flag
\* was set; any other step leaves the flagged peers as they are.
SyncCounted ==
    IF nSyncStarted' > nSyncStarted
    THEN \E p \in DOMAIN mapNodeState :
            /\ ~mapNodeState[p].fSyncStarted
            /\ Syncing' = Syncing \cup {p}
            /\ nSyncStarted' = nSyncStarted + 1
            /\ \E i \in 1..Len(sent') :
                  sent'[i].to = p /\ sent'[i].cmd = "getheaders"
    ELSE IF nSyncStarted' < nSyncStarted
    THEN \E p \in Syncing :
            /\ p \notin DOMAIN mapNodeState'
            /\ Syncing' = Syncing \ {p}
            /\ nSyncStarted' = nSyncStarted - 1
    ELSE Syncing' = Syncing

\* Once the only syncing peer n is finalized, the tick of any remaining
\* full node that has not started sync starts it.
SyncHandedOver ==
    \A n \in Syncing, q \in DOMAIN mapNodeState, env \in SyncEnvs :
        LET R == FinalizeNodeOp(World, n)
            S == StartSync(R, q, TRUE, env)
        IN (/\ Syncing = {n} /\ q # n /\ ~vNodes[q].fClient /\ ~env.fImporting)
           => /\ R.nSyncStarted = 0
              /\ S.nSyncStarted = 1
              /\ S.mapNodeState[q].fSyncStarted

\* C40: nSyncStarted is the number of registered peers whose fSyncStarted
\* flag is set and is never negative; it grows only by one, when a tick sets
\* the flag of a peer, and shrinks only by one, when such a peer is
\* finalized; and after the only syncing peer is finalized another peer's
\* tick starts header sync.
C40_SyncStartedCount ==
    /\ [](/\ nSyncStarted = Cardinality(Syncing)
          /\ nSyncStarted >= 0
          /\ SyncHandedOver)
    /\ [][SyncCounted]_vars

\* One peer is the only one syncing while a second full node, past the
\* handshake, waits with its flag clear: finalizing the first hands the sync
\* over to the second at its next tick.
C40_Witness ==
    \E n, q \in DOMAIN mapNodeState :
        /\ n # q
        /\ Syncing = {n}
        /\ nSyncStarted = 1
        /\ ~vNodes[q].fClient
        /\ vNodes[q].fSuccessfullyConnected
        /\ StartSync(FinalizeNodeOp(World, n), q, TRUE, QuietEnv)
               .mapNodeState[q].fSyncStarted

\* ------------------------------------------------- one request per block
\* A step leaves every hash that stays in flight with the peer that holds
\* it.
InFlightStays ==
    \A hash \in DOMAIN mapBlocksInFlight \cap DOMAIN mapBlocksInFlight' :
        mapBlocksInFlight'[hash].nodeid = mapBlocksInFlight[hash].nodeid

\* What the INV handler, the HEADERS handler and the tick of peer q do to a
\* hash that another peer holds: nothing.
InFlightKept(q, hash) ==
    LET held(R) == /\ hash \in DOMAIN R.mapBlocksInFlight
                   /\ R.mapBlocksInFlight[hash] = mapBlocksInFlight[hash]
                   /\ \A i \in 1..Len(R.mapNodeState[q].vBlocksInFlight) :
                          R.mapNodeState[q].vBlocksInFlight[i].hash # hash
    IN /\ \A env \in InvPairEnvs :
              /\ held(InvOnce(World, q, hash, env))
              /\ GetDataCount(InvOnce(World, q, hash, env).sent, hash) = 0
              /\ held(ProcessMessage([World EXCEPT !.sent = <<>>], q,
                          Msg("headers",
                              HeadersArg(<<HeaderOf(IndexOfHash(hash), 0)>>)),
                          env))
       /\ LET T == SendMessages([World EXCEPT !.sent = <<>>], q, QuietEnv)
          IN held(T) /\ GetDataCount(T.sent, hash) = 0

\* C39: no handler and no tick moves an in-flight block from one peer to
\* another: while a hash is in flight its holder does not change, and the
\* INV handler, the HEADERS direct fetch and the tick of another peer
\* neither mark it in flight again nor request it.
C39_NoSecondRequest ==
    /\ [](\A hash \in DOMAIN mapBlocksInFlight, q \in DOMAIN mapNodeState :
              q # mapBlocksInFlight[hash].nodeid => InFlightKept(q, hash))
    /\ [][InFlightStays]_vars

\* A block is in flight at one peer while a second peer, past the handshake
\* and with room for a download, has announced the same block.
C39_Witness ==
    \E hash \in DOMAIN mapBlocksInFlight, q \in DOMAIN mapNodeState :
        /\ q # mapBlocksInFlight[hash].nodeid
        /\ vNodes[q].fSuccessfullyConnected
        /\ mapNodeState[q].nBlocksInFlight = 0
        /\ mapNodeState[q].pindexBestKnownBlock = IndexOfHash(hash)
        /\ ~HaveData(World, IndexOfHash(hash))
        /\ InFlightKept(q, hash)

\* ------------------------------------------------- answered at most once
\* The data messages of a pass: without a bloom filter each answers one
\* queue entry.
DataSent(R) ==
    {a \in 1..Len(R.sent) : R.sent[a].cmd \in {"block", "tx", "stx"}}

\* One pass removes from the queue at least as many entries as it sent data
\* messages for.
ServedAreRemoved(p, env) ==
    LET R == ProcessGetData(World, p, env)
    IN Len(Queue(World, p)) - Len(Queue(R, p)) >= Cardinality(DataSent(R))

\* C38 as stated: whenever ProcessGetData returns - after the whole queue,
\* at a block, at a full send buffer or at the interrupt - the entries it
\* served are no longer in the peer's queue.
C38_AsStated ==
    \A p \in DOMAIN vNodes, env \in GetDataEnvs : ServedAreRemoved(p, env)

\* The same for the passes the interrupt does not end.
C38_UninterruptedRemoves ==
    \A p \in DOMAIN vNodes, env \in GetDataEnvs :
        env.nInterruptAt = 0 => ServedAreRemoved(p, env)

\* A pass serves a transaction and is then ended by the interrupt: the
\* transaction is sent and its entry is still first in the queue, so that
\* the next pass sends it again.
C38_ServedTwice ==
    \E p \in DOMAIN vNodes, env \in GetDataEnvs :
        LET R == ProcessGetData(World, p, env)
            S == ProcessGetData([R EXCEPT !.sent = <<>>], p,
                                [env EXCEPT !.nInterruptAt = 0])
        IN /\ env.nInterruptAt = 2 /\ ~env.fPauseSend
           /\ Len(Queue(World, p)) = 2
           /\ R.sent = <<[to |-> p, cmd |-> "tx", arg |-> <<1>>]>>
           /\ Queue(R, p) = Queue(World, p)
           /\ S.sent[1] = R.sent[1]

\* ------------------------------------------------- liveness specification
\* Peers connect, send VERSION, may or may not send VERACK, announce blocks
\* by INV and may or may not deliver them.  The clock advances once, past
\* every download deadline; the message handler ticks every peer, and the
\* connection manager finalizes the peers that are marked for disconnect.
LiveDeadline ==
    1000000
        + nTargetSpacing * (BLOCK_DOWNLOAD_TIMEOUT_BASE
                              + BLOCK_DOWNLOAD_TIMEOUT_PER_PEER * (NumPeers - 1))
        + 1
LiveEnv == [NowEnv EXCEPT !.fCanDirectFetch = TRUE]

LiveInv ==
    \E p \in Peers, hash \in OfferedBlockHashes :
        /\ p \in DOMAIN vNodes /\ vNodes[p].nVersion # 0
        /\ Receive(p, Msg("inv", InvArg(<<hash>>)), LiveEnv)
LiveBlock ==
    \E p \in Peers, pindex \in 1..NumBlocks :
        /\ p \in DOMAIN vNodes /\ vNodes[p].nVersion # 0
        /\ GetBlockHash(pindex) \in DOMAIN mapBlocksInFlight
        /\ Receive(p, Msg("block", ValidBlock(pindex)), LiveEnv)
LiveAdvance ==
    /\ nTimeMicros < LiveDeadline
    /\ \E W \in {[World EXCEPT !.nTimeMicros = LiveDeadline]} : Step(W)
LiveTick(p) ==
    /\ p \in DOMAIN vNodes
    /\ \E W \in {Observed(SendMessages(World, p, NowEnv), NowEnv)} : Step(W)
LiveFinalize(p) ==
    /\ p \in DOMAIN vNodes /\ vNodes[p].fDisconnect
    /\ \E W \in {FinalizeNodeOp(World, p)} : Step(W)
LiveTicks == \E p \in Peers : LiveTick(p)
LiveFinalizes == \E p \in Peers : LiveFinalize(p)

LiveNext ==
    \/ TimeConnect \/ TimeVersion \/ TimeVerack \/ LiveInv \/ LiveBlock
    \/ LiveAdvance \/ LiveTicks \/ LiveFinalizes

\* ENABLED <<LiveTick(p)>>_vars as a state predicate: the tick of p is
\* possible and changes the state.
TickChanges(p) ==
    /\ p \in DOMAIN vNodes /\ fault = "none"
    /\ LET W == Observed(SendMessages(World, p, NowEnv), NowEnv)
       IN /\ ScoreBounded(W)
          /\ (W # World \/ fUpdateConnectionTime \/ sent # <<>>)

\* The clock, the finalization of disconnected peers and the tick of every
\* peer are weakly fair; the last is WF_vars(LiveTick(p)) with its ENABLED
\* written as TickChanges(p).
LiveSpec ==
    /\ Init /\ [][LiveNext]_vars
    /\ WF_vars(LiveAdvance)
    /\ \A p \in Peers :
          /\ WF_vars(LiveFinalize(p))
          /\ ([]<>(~TickChanges(p)) \/ []<><<LiveTick(p)>>_vars)

\* C36 as stated: with time advancing and every connected peer ticked,
\* every hash in flight is eventually out of mapBlocksInFlight, whoever
\* holds it.
C36_AsStated ==
    \A hash \in OfferedBlockHashes :
        (hash \in DOMAIN mapBlocksInFlight /\ nTimeMicros < LiveDeadline)
            ~> (hash \notin DOMAIN mapBlocksInFlight)

\* The same for the hashes whose holder has completed the handshake.
C36_AfterVerack ==
    \A hash \in OfferedBlockHashes :
        (/\ hash \in DOMAIN mapBlocksInFlight /\ nTimeMicros < LiveDeadline
         /\ vNodes[mapBlocksInFlight[hash].nodeid].fSuccessfullyConnected)
            ~> (hash \notin DOMAIN mapBlocksInFlight)

\* A block is in flight from a peer that sent VERSION and INV but no VERACK,
\* the clock is past the peer's deadline and the peer's tick, now or at any
\* later time, changes nothing.
C36_StuckInFlight ==
    \E hash \in DOMAIN mapBlocksInFlight :
        LET p == mapBlocksInFlight[hash].nodeid
        IN /\ ~vNodes[p].fSuccessfullyConnected /\ ~vNodes[p].fDisconnect
           /\ nTimeMicros = LiveDeadline
           /\ nTimeMicros > Deadline(p)
           /\ \A k \in 1..3 : TickAt(p, k * LiveDeadline) = World

\* ------------------------------------------------------------------ C35
\* Block announcements: peers shake hands, may send SENDHEADERS, announce
\* headers and deliver blocks; validation reports every stored block through
\* NewPoWValidBlock and every tip through UpdatedBlockTip; each step shows
\* what it pushed.
MaxAnnounce == 2
StartingHeights == {-1, 2000 + ChainLen}
AnnounceEnv == [NowEnv EXCEPT !.fObserve = TRUE]

AnnounceVersion ==
    \E p \in Peers, h \in StartingHeights :
        /\ p \in DOMAIN vNodes /\ vNodes[p].nVersion = 0
        /\ Receive(p, Msg("version", [GoodVersion EXCEPT !.nStartingHeight = h]),
                   AnnounceEnv)
AnnounceSendHeaders ==
    \E p \in Peers :
        /\ p \in DOMAIN vNodes /\ vNodes[p].fSuccessfullyConnected
        /\ ~mapNodeState[p].fPreferHeaders
        /\ Receive(p, Msg("sendheaders", 0), AnnounceEnv)
AnnounceHeaders ==
    \E p \in Peers, headers \in ChainHeaders :
        /\ p \in DOMAIN vNodes /\ vNodes[p].fSuccessfullyConnected
        /\ Receive(p, Msg("headers", HeadersArg(headers)), AnnounceEnv)
AnnounceBlock ==
    \E p \in Peers, pindex \in 1..ChainLen :
        /\ p \in DOMAIN vNodes /\ vNodes[p].fSuccessfullyConnected
        /\ GetBlockHash(pindex) \in DOMAIN mapBlocksInFlight
        /\ pprev(pindex) \in setHaveData
        /\ Receive(p, Msg("block", ValidBlock(pindex)), AnnounceEnv)
AnnounceTick == \E p \in Peers : Tick(p, AnnounceEnv)
AnnounceNewPoWValidBlock ==
    \E pindex \in setHaveData :
        Step(Observed(NewPoWValidBlockOp(World, pindex), AnnounceEnv))
AnnounceUpdatedBlockTip ==
    \E pindexFork \in -1..(pindexTip - 1), fInitialDownload \in BOOLEAN :
        \E W \in {UpdatedBlockTipOp(World, pindexTip, pindexFork,
                                    fInitialDownload)} :
            /\ \A n \in DOMAIN W.vNodes :
                   Len(W.vNodes[n].vBlockHashesToAnnounce) <= MaxAnnounce
            /\ Step(Observed(W, AnnounceEnv))

AnnounceNext ==
    \/ TimeConnect \/ AnnounceVersion \/ TimeVerack \/ AnnounceSendHeaders
    \/ AnnounceHeaders \/ AnnounceBlock \/ AnnounceTick
    \/ AnnounceNewPoWValidBlock \/ AnnounceUpdatedBlockTip

AnnounceSpec == Init /\ [][AnnounceNext]_vars

\* The HEADERS messages the last step pushed.
HeadersSent == {k \in 1..Len(sent) : sent[k].cmd = "headers"}

\* C35: a new-block announcement is sent as a HEADERS message only to a peer
\* whose prefers-headers flag is set; a peer that never sent SENDHEADERS is
\* announced blocks only through INV, whatever ticks and chain callbacks
\* (NewPoWValidBlock, UpdatedBlockTip) have run.
C35_AsStated ==
    \A k \in HeadersSent :
        /\ sent[k].to \in DOMAIN mapNodeState
        /\ mapNodeState[sent[k].to].fPreferHeaders

\* What holds of the ticks alone: the announcement step of SendMessages
\* pushes HEADERS to a peer only if its prefers-headers flag is set.
TickAnnouncesByFlag ==
    \A p \in DOMAIN vNodes :
        fault = "none" =>
            \A m \in SeqToSet(SendBlockAnnouncements(World, p).sent) :
                m.cmd = "headers" => mapNodeState[p].fPreferHeaders

\* A tick that announces a block by INV, and one that announces by HEADERS.
TickAnnouncesByInv ==
    \E k \in 1..Len(sent) :
        /\ sent[k].cmd = "inv"
        /\ \E j \in 1..Len(sent[k].arg) : sent[k].arg[j].type = "block"
TickAnnouncesByHeaders ==
    \E k \in HeadersSent : mapNodeState[sent[k].to].fPreferHeaders

====
